---- MODULE Spec2Model ----
(***************************************************************************)
(* Model of the chess-engine-harmon board: positions, pieces, the board    *)
(* value, move legality, move application and the play_move / promote      *)
(* state machine, translated from src/src/{position,piece}.rs and          *)
(* src/src/board/mod.rs.                                                   *)
(***************************************************************************)
EXTENDS Integers, Sequences, FiniteSets, TLC

\* ------------------------------------------------------------------------
\* Option<T>: None is the empty sequence, Some(x) the one-element sequence
\* ------------------------------------------------------------------------
None == <<>>

Some(x) == <<x>>

is_some(o) == o # <<>>

is_none(o) == o = <<>>

unwrap(o) == o[1]

abs(x) == IF x < 0 THEN -x ELSE x

\* ------------------------------------------------------------------------
\* Color (src/src/lib.rs)
\* ------------------------------------------------------------------------
WHITE == "White"

BLACK == "Black"

Not(c) == IF c = WHITE THEN BLACK ELSE WHITE

\* ------------------------------------------------------------------------
\* Position (src/src/position.rs)
\* ------------------------------------------------------------------------
Position(row, col) == [row |-> row, col |-> col]

\* the named squares: position::A1 .. position::H8
position ==
    [ A1 |-> Position(0, 0), B1 |-> Position(0, 1), C1 |-> Position(0, 2), D1 |-> Position(0, 3),
      E1 |-> Position(0, 4), F1 |-> Position(0, 5), G1 |-> Position(0, 6), H1 |-> Position(0, 7),
      A2 |-> Position(1, 0), B2 |-> Position(1, 1), C2 |-> Position(1, 2), D2 |-> Position(1, 3),
      E2 |-> Position(1, 4), F2 |-> Position(1, 5), G2 |-> Position(1, 6), H2 |-> Position(1, 7),
      A3 |-> Position(2, 0), B3 |-> Position(2, 1), C3 |-> Position(2, 2), D3 |-> Position(2, 3),
      E3 |-> Position(2, 4), F3 |-> Position(2, 5), G3 |-> Position(2, 6), H3 |-> Position(2, 7),
      A4 |-> Position(3, 0), B4 |-> Position(3, 1), C4 |-> Position(3, 2), D4 |-> Position(3, 3),
      E4 |-> Position(3, 4), F4 |-> Position(3, 5), G4 |-> Position(3, 6), H4 |-> Position(3, 7),
      A5 |-> Position(4, 0), B5 |-> Position(4, 1), C5 |-> Position(4, 2), D5 |-> Position(4, 3),
      E5 |-> Position(4, 4), F5 |-> Position(4, 5), G5 |-> Position(4, 6), H5 |-> Position(4, 7),
      A6 |-> Position(5, 0), B6 |-> Position(5, 1), C6 |-> Position(5, 2), D6 |-> Position(5, 3),
      E6 |-> Position(5, 4), F6 |-> Position(5, 5), G6 |-> Position(5, 6), H6 |-> Position(5, 7),
      A7 |-> Position(6, 0), B7 |-> Position(6, 1), C7 |-> Position(6, 2), D7 |-> Position(6, 3),
      E7 |-> Position(6, 4), F7 |-> Position(6, 5), G7 |-> Position(6, 6), H7 |-> Position(6, 7),
      A8 |-> Position(7, 0), B8 |-> Position(7, 1), C8 |-> Position(7, 2), D8 |-> Position(7, 3),
      E8 |-> Position(7, 4), F8 |-> Position(7, 5), G8 |-> Position(7, 6), H8 |-> Position(7, 7) ]

king_pos(color) == IF color = WHITE THEN Position(0, 4) ELSE Position(7, 4)

queen_pos(color) == IF color = WHITE THEN Position(0, 3) ELSE Position(7, 3)

is_off_board(p) == p.row < 0 \/ p.row > 7 \/ p.col < 0 \/ p.col > 7

is_on_board(p) == ~is_off_board(p)

add_row(p, drow) == Position(p.row + drow, p.col)

add_col(p, dcol) == Position(p.row, p.col + dcol)

is_diagonal_to(p, other) == abs(p.col - other.col) = abs(p.row - other.row)

diagonal_distance(p, other) == abs(p.col - other.col)

is_orthogonal_to(p, other) == (p.col = other.col) \/ (p.row = other.row)

orthogonal_distance(p, other) == abs(p.col - other.col) + abs(p.row - other.row)

is_adjacent_to(p, other) ==
    IF is_orthogonal_to(p, other) THEN orthogonal_distance(p, other) = 1
    ELSE IF is_diagonal_to(p, other) THEN diagonal_distance(p, other) = 1
    ELSE FALSE

is_below(p, other) == p.row < other.row

is_above(p, other) == p.row > other.row

is_left_of(p, other) == p.col < other.col

is_right_of(p, other) == p.col > other.col

next_below(p) == Position(p.row - 1, p.col)

next_above(p) == Position(p.row + 1, p.col)

pawn_up(p, ally_color) == IF ally_color = WHITE THEN next_above(p) ELSE next_below(p)

pawn_back(p, ally_color) == pawn_up(p, Not(ally_color))

next_left(p) == Position(p.row, p.col - 1)

next_right(p) == Position(p.row, p.col + 1)

pos_is_starting_pawn(p, color) == IF color = WHITE THEN p.row = 1 ELSE p.row = 6

pos_is_kingside_rook(p, color) == IF color = BLACK THEN p = position.H8 ELSE p = position.H1

pos_is_queenside_rook(p, color) == IF color = BLACK THEN p = position.A8 ELSE p = position.A1

\* last rank of a color's pawns
pos_is_promoting_pawn(p, color) == IF color = WHITE THEN p.row = 7 ELSE p.row = 0

\* diagonals_to leaving out the square it travels to
diagonals_to_short(p, to) ==
    IF ~is_diagonal_to(p, to) THEN <<>>
    ELSE LET col_step == IF is_left_of(p, to) THEN 1 ELSE -1
             row_step == IF is_below(p, to) THEN 1 ELSE -1
         IN  [k \in 1..(diagonal_distance(p, to) - 1) |->
                 add_col(add_row(p, k * row_step), k * col_step)]

diagonals_to(p, to) ==
    IF ~is_diagonal_to(p, to) THEN <<>>
    ELSE LET col_step == IF is_left_of(p, to) THEN 1 ELSE -1
             row_step == IF is_below(p, to) THEN 1 ELSE -1
         IN  [k \in 1..diagonal_distance(p, to) |->
                 add_col(add_row(p, k * row_step), k * col_step)]

orthogonals_to(p, to) ==
    IF ~is_orthogonal_to(p, to) THEN <<>>
    ELSE LET col_step == IF is_left_of(p, to) THEN 1
                         ELSE IF is_right_of(p, to) THEN -1 ELSE 0
             row_step == IF is_left_of(p, to) \/ is_right_of(p, to) THEN 0
                         ELSE IF is_above(p, to) THEN -1
                         ELSE IF is_below(p, to) THEN 1 ELSE 0
         IN  [k \in 1..orthogonal_distance(p, to) |->
                 add_col(add_row(p, k * row_step), k * col_step)]

is_knight_move(p, other) ==
    \/ abs(p.row - other.row) = 2 /\ abs(p.col - other.col) = 1
    \/ abs(p.row - other.row) = 1 /\ abs(p.col - other.col) = 2

\* -- text --------------------------------------------------------------------
\* A str is the sequence of its chars, a char a string of one ASCII
\* character; "U+00E9" and "U+00C9" are the chars e-acute and E-acute, which
\* take two bytes each in UTF-8.
Digits == <<"0", "1", "2", "3", "4", "5", "6", "7", "8", "9">>

\* impl Display for Position: the column letter ('?' off the board) and
\* row + 1 in decimal (rows -1..8 give one digit)
to_string(p) ==
    << CASE p.col = 0 -> "a" [] p.col = 1 -> "b" [] p.col = 2 -> "c" [] p.col = 3 -> "d"
         [] p.col = 4 -> "e" [] p.col = 5 -> "f" [] p.col = 6 -> "g" [] p.col = 7 -> "h"
         [] OTHER -> "?",
       Digits[(p.row + 1) + 1] >>

\* impl FromStr for Position: the Result returned, or the panic that
\* unwound the call, as a record [kind, value]
from_str(s) ==
    LET Ok(v) == [kind |-> "Ok", value |-> v]
        Err(msg) == [kind |-> "Err", value |-> msg]
        Panicked == [kind |-> "Panic", value |-> "unwrap on None"]
        len_utf8(ch) == IF ch \in {"U+00E9", "U+00C9"} THEN 2 ELSE 1
        RECURSIVE len_from(_)
        len_from(i) == IF i > Len(s) THEN 0 ELSE len_utf8(s[i]) + len_from(i + 1)
        to_uppercase(ch) ==
            CASE ch = "a" -> "A" [] ch = "b" -> "B" [] ch = "c" -> "C" [] ch = "d" -> "D"
              [] ch = "e" -> "E" [] ch = "f" -> "F" [] ch = "g" -> "G" [] ch = "h" -> "H"
              [] ch = "i" -> "I" [] ch = "j" -> "J" [] ch = "U+00E9" -> "U+00C9"
              [] OTHER -> ch
        upper == [i \in 1..Len(s) |-> to_uppercase(s[i])]
        to_digit(ch) == IF \E d \in 0..9 : Digits[d + 1] = ch
                        THEN Some(CHOOSE d \in 0..9 : Digits[d + 1] = ch)
                        ELSE None
    IN  IF len_from(1) # 2 THEN Err("Invalid position")
        ELSE IF Len(upper) < 2 THEN Panicked    \* s.chars().nth(1).unwrap()
        ELSE LET row == (IF to_digit(upper[2]) = None THEN 0 ELSE to_digit(upper[2])[1]) - 1
                 col == CASE upper[1] = "A" -> 0 [] upper[1] = "B" -> 1 [] upper[1] = "C" -> 2
                          [] upper[1] = "D" -> 3 [] upper[1] = "E" -> 4 [] upper[1] = "F" -> 5
                          [] upper[1] = "G" -> 6 [] upper[1] = "H" -> 7 [] OTHER -> -1
             IN  IF col = -1 THEN Err("Invalid column")
                 ELSE IF is_on_board(Position(row, col)) THEN Ok(Position(row, col))
                 ELSE Err("Invalid row")

\* Vec::pop on the travelled path: drop the last element (no-op when empty)
pop(s) == IF Len(s) = 0 THEN s ELSE SubSeq(s, 1, Len(s) - 1)

\* ------------------------------------------------------------------------
\* Piece (src/src/piece.rs)
\* ------------------------------------------------------------------------
Piece(kind, color, pos) == [kind |-> kind, color |-> color, pos |-> pos]

King(c, p) == Piece("King", c, p)

Queen(c, p) == Piece("Queen", c, p)

Rook(c, p) == Piece("Rook", c, p)

Bishop(c, p) == Piece("Bishop", c, p)

Knight(c, p) == Piece("Knight", c, p)

Pawn(c, p) == Piece("Pawn", c, p)

get_color(piece) == piece.color

get_pos(piece) == piece.pos

is_king(piece) == piece.kind = "King"

is_rook(piece) == piece.kind = "Rook"

is_bishop(piece) == piece.kind = "Bishop"

is_knight(piece) == piece.kind = "Knight"

is_pawn(piece) == piece.kind = "Pawn"

is_starting_pawn(piece) ==
    IF is_pawn(piece) THEN pos_is_starting_pawn(piece.pos, piece.color) ELSE FALSE

is_promoting_pawn(piece) ==
    IF is_pawn(piece) THEN pos_is_promoting_pawn(piece.pos, piece.color) ELSE FALSE

is_queenside_rook(piece) ==
    IF is_rook(piece) THEN pos_is_queenside_rook(piece.pos, piece.color) ELSE FALSE

is_kingside_rook(piece) ==
    IF is_rook(piece) THEN pos_is_kingside_rook(piece.pos, piece.color) ELSE FALSE

move_to(piece, new_pos) == Piece(piece.kind, piece.color, new_pos)

\* ------------------------------------------------------------------------
\* CastlingRights (src/src/board/castling_rights.rs)
\* ------------------------------------------------------------------------
CastlingRights(k, q) == [kingside |-> k, queenside |-> q]

CastlingRightsDefault == CastlingRights(TRUE, TRUE)

disable_kingside(cr) == [cr EXCEPT !.kingside = FALSE]

disable_queenside(cr) == [cr EXCEPT !.queenside = FALSE]

disable_all(cr) == disable_queenside(disable_kingside(cr))

enable_all(cr) == CastlingRights(TRUE, TRUE)

\* ------------------------------------------------------------------------
\* Move (src/src/lib.rs) and Promotion (src/src/board/types.rs)
\* ------------------------------------------------------------------------
NoPos == Position(-9, -9)

MovePiece(from, to) == [type |-> "Piece", from |-> from, to |-> to]

KingSideCastle == [type |-> "KingSideCastle", from |-> NoPos, to |-> NoPos]

QueenSideCastle == [type |-> "QueenSideCastle", from |-> NoPos, to |-> NoPos]

Resign == [type |-> "Resign", from |-> NoPos, to |-> NoPos]

Promotion == {"Queen", "Knight", "Bishop", "Rook"}

\* ------------------------------------------------------------------------
\* Board (src/src/board/mod.rs)
\* ------------------------------------------------------------------------
\* index of a position in the 64-square array (rank 8 first), 1-based
square_index(pos) == (7 - pos.row) * 8 + pos.col + 1

Board_empty ==
    [squares |-> [i \in 1..64 |-> None],
     en_passant |-> None,
     taken_piece |-> None,
     promotion |-> None,
     white_castling_rights |-> CastlingRightsDefault,
     black_castling_rights |-> CastlingRightsDefault,
     turn |-> WHITE]

get_turn(b) == b.turn

get_en_passant(b) == b.en_passant

get_piece(b, pos) ==
    IF is_off_board(pos) THEN None ELSE b.squares[square_index(pos)]

\* position attached to the i-th square of the array (0-based i), as
\* is_threatened recomputes it
index_pos(i) == Position(7 - (i \div 8), i % 8)

get_player_pieces(b, color) ==
    LET occupied == SelectSeq([i \in 1..64 |-> b.squares[i]], LAMBDA sq : is_some(sq))
        pieces == [k \in 1..Len(occupied) |-> unwrap(occupied[k])]
    IN  SelectSeq(pieces, LAMBDA x : get_color(x) = color)

get_king_pos(b, color) ==
    LET ks == {i \in 1..64 : /\ is_some(b.squares[i])
                             /\ is_king(unwrap(b.squares[i]))
                             /\ unwrap(b.squares[i]).color = color}
    IN  IF ks = {} THEN None
        ELSE Some(get_pos(unwrap(b.squares[CHOOSE i \in ks : \A j \in ks : j <= i])))

has_ally_piece(b, pos, ally_color) ==
    LET p == get_piece(b, pos)
    IN  IF is_some(p) THEN get_color(unwrap(p)) = ally_color ELSE FALSE

has_enemy_piece(b, pos, ally_color) ==
    LET p == get_piece(b, pos)
    IN  IF is_some(p) THEN get_color(unwrap(p)) = Not(ally_color) ELSE FALSE

has_piece(b, pos) == is_some(get_piece(b, pos))

has_no_piece(b, pos) == is_none(get_piece(b, pos))

\* -- piece attack rules (src/src/piece.rs) ---------------------------------
is_legal_rook_attack(pos, new_pos, b) ==
    IF is_orthogonal_to(pos, new_pos)
    THEN LET traveling == pop(orthogonals_to(pos, new_pos))
         IN  \A k \in 1..Len(traveling) : ~has_piece(b, traveling[k])
    ELSE FALSE

is_legal_bishop_attack(pos, new_pos, b) ==
    IF is_diagonal_to(pos, new_pos)
    THEN LET traveling == pop(diagonals_to(pos, new_pos))
         IN  \A k \in 1..Len(traveling) : ~has_piece(b, traveling[k])
    ELSE FALSE

is_legal_queen_attack(pos, new_pos, b) ==
    is_legal_rook_attack(pos, new_pos, b) \/ is_legal_bishop_attack(pos, new_pos, b)

is_legal_pawn_attack(ally_color, pos, new_pos, b) ==
    LET up == pawn_up(pos, ally_color)
    IN  \/ IF is_some(get_en_passant(b))
           THEN LET en_passant == unwrap(get_en_passant(b))
                IN  /\ (en_passant = next_left(up) \/ en_passant = next_right(up))
                    /\ new_pos = en_passant
           ELSE FALSE
        \/ new_pos = next_left(up)
        \/ new_pos = next_right(up)

\* is_legal_attack of a pawn that attacks only where it could move
is_legal_attack_by_move(piece, new_pos, b) ==
    IF has_ally_piece(b, new_pos, get_color(piece)) \/ is_off_board(new_pos)
    THEN FALSE
    ELSE CASE piece.kind = "Pawn"   ->
                /\ is_legal_pawn_attack(piece.color, piece.pos, new_pos, b)
                /\ has_piece(b, new_pos)
           [] piece.kind = "King"   -> is_adjacent_to(piece.pos, new_pos)
           [] piece.kind = "Queen"  -> is_legal_queen_attack(piece.pos, new_pos, b)
           [] piece.kind = "Rook"   -> is_legal_rook_attack(piece.pos, new_pos, b)
           [] piece.kind = "Bishop" -> is_legal_bishop_attack(piece.pos, new_pos, b)
           [] piece.kind = "Knight" -> is_knight_move(piece.pos, new_pos)

is_legal_attack(piece, new_pos, b) ==
    IF has_ally_piece(b, new_pos, get_color(piece)) \/ is_off_board(new_pos)
    THEN FALSE
    ELSE CASE piece.kind = "Pawn"   -> is_legal_pawn_attack(piece.color, piece.pos, new_pos, b)
           [] piece.kind = "King"   -> is_adjacent_to(piece.pos, new_pos)
           [] piece.kind = "Queen"  -> is_legal_queen_attack(piece.pos, new_pos, b)
           [] piece.kind = "Rook"   -> is_legal_rook_attack(piece.pos, new_pos, b)
           [] piece.kind = "Bishop" -> is_legal_bishop_attack(piece.pos, new_pos, b)
           [] piece.kind = "Knight" -> is_knight_move(piece.pos, new_pos)

\* -- piece move rules (src/src/piece.rs) -----------------------------------
is_legal_pawn_move(ally_color, pos, new_pos, b) ==
    LET up == pawn_up(pos, ally_color)
        up_left == next_left(up)
        up_right == next_right(up)
    IN  \/ IF is_some(get_en_passant(b))
           THEN LET en_passant == unwrap(get_en_passant(b))
                IN  (en_passant = up_left \/ en_passant = up_right) /\ new_pos = en_passant
           ELSE FALSE
        \/ /\ pos_is_starting_pawn(pos, ally_color)
           /\ has_no_piece(b, new_pos)
           /\ has_no_piece(b, up)
           /\ new_pos = pawn_up(up, ally_color)
        \/ (has_enemy_piece(b, new_pos, ally_color) /\ new_pos = up_left)
        \/ (has_enemy_piece(b, new_pos, ally_color) /\ new_pos = up_right)
        \/ (has_no_piece(b, new_pos) /\ new_pos = up)

\* is_legal_rook_move that also wants the square travelled to empty
is_legal_rook_move_whole_path(pos, new_pos, b) ==
    IF is_orthogonal_to(pos, new_pos)
    THEN LET traveling == orthogonals_to(pos, new_pos)
         IN  \A k \in 1..Len(traveling) : ~has_piece(b, traveling[k])
    ELSE FALSE

is_legal_rook_move(pos, new_pos, b) ==
    IF is_orthogonal_to(pos, new_pos)
    THEN LET traveling == pop(orthogonals_to(pos, new_pos))
         IN  \A k \in 1..Len(traveling) : ~has_piece(b, traveling[k])
    ELSE FALSE

is_legal_bishop_move(pos, new_pos, b) ==
    IF is_diagonal_to(pos, new_pos)
    THEN LET traveling == pop(diagonals_to(pos, new_pos))
         IN  \A k \in 1..Len(traveling) : ~has_piece(b, traveling[k])
    ELSE FALSE

is_legal_queen_move(pos, new_pos, b) ==
    is_legal_rook_move(pos, new_pos, b) \/ is_legal_bishop_move(pos, new_pos, b)

piece_is_legal_move(piece, new_pos, b) ==
    IF has_ally_piece(b, new_pos, get_color(piece)) \/ is_off_board(new_pos)
    THEN FALSE
    ELSE CASE piece.kind = "Pawn"   -> is_legal_pawn_move(piece.color, piece.pos, new_pos, b)
           [] piece.kind = "King"   -> is_adjacent_to(piece.pos, new_pos)
           [] piece.kind = "Queen"  -> is_legal_queen_move(piece.pos, new_pos, b)
           [] piece.kind = "Rook"   -> is_legal_rook_move(piece.pos, new_pos, b)
           [] piece.kind = "Bishop" -> is_legal_bishop_move(piece.pos, new_pos, b)
           [] piece.kind = "Knight" -> is_knight_move(piece.pos, new_pos)

\* -- threats ---------------------------------------------------------------
is_threatened(b, pos, ally_color) ==
    \E i \in 0..63 :
        LET square_pos == index_pos(i)
            sq == b.squares[i + 1]
        IN  /\ \/ is_orthogonal_to(square_pos, pos)
               \/ is_diagonal_to(square_pos, pos)
               \/ is_knight_move(square_pos, pos)
            /\ is_some(sq)
            /\ get_color(unwrap(sq)) # ally_color
            /\ is_legal_attack(unwrap(sq), pos, b)

is_in_check(b, color) ==
    LET kp == get_king_pos(b, color)
    IN  IF is_some(kp) THEN is_threatened(b, unwrap(kp), color) ELSE FALSE

\* -- castling eligibility --------------------------------------------------
can_kingside_castle(b, color) ==
    LET right_of_king == next_right(king_pos(color))
    IN  IF color = WHITE
        THEN /\ has_no_piece(b, Position(0, 5))
             /\ has_no_piece(b, Position(0, 6))
             /\ get_piece(b, Position(0, 7)) = Some(Rook(color, Position(0, 7)))
             /\ b.white_castling_rights.kingside
             /\ ~is_in_check(b, color)
             /\ ~is_threatened(b, right_of_king, color)
             /\ ~is_threatened(b, next_right(right_of_king), color)
        ELSE /\ has_no_piece(b, Position(7, 5))
             /\ has_no_piece(b, Position(7, 6))
             /\ get_piece(b, Position(7, 7)) = Some(Rook(color, Position(7, 7)))
             /\ b.black_castling_rights.kingside
             /\ ~is_in_check(b, color)
             /\ ~is_threatened(b, right_of_king, color)
             /\ ~is_threatened(b, next_right(right_of_king), color)

can_queenside_castle(b, color) ==
    IF color = WHITE
    THEN /\ has_no_piece(b, Position(0, 1))
         /\ has_no_piece(b, Position(0, 2))
         /\ has_no_piece(b, Position(0, 3))
         /\ get_piece(b, Position(0, 0)) = Some(Rook(color, Position(0, 0)))
         /\ b.white_castling_rights.queenside
         /\ ~is_in_check(b, color)
         /\ ~is_threatened(b, queen_pos(color), color)
    ELSE /\ has_no_piece(b, Position(7, 1))
         /\ has_no_piece(b, Position(7, 2))
         /\ has_no_piece(b, Position(7, 3))
         /\ get_piece(b, Position(7, 0)) = Some(Rook(color, Position(7, 0)))
         /\ b.black_castling_rights.queenside
         /\ ~is_in_check(b, color)
         /\ ~is_threatened(b, queen_pos(color), color)

\* -- modifiers -------------------------------------------------------------
change_turn(b) == [b EXCEPT !.turn = Not(b.turn)]

\* set_turn(&self, color) -> Self: the receiver is left alone, the board
\* with the turn set is the value returned
set_turn(b, color) == [b EXCEPT !.turn = color]

add_piece(b, piece) ==
    [b EXCEPT !.squares[square_index(get_pos(piece))] = Some(piece)]

\* move_piece that derives the mover's castling rights from where its king
\* and rooks stand after the move
move_piece_positional_rights(b, from, to) ==
    LET cleared == [b EXCEPT !.en_passant = None, !.taken_piece = None]
    IN  IF is_off_board(from) \/ is_off_board(to) THEN cleared
        ELSE IF is_none(cleared.squares[square_index(from)]) THEN cleared
        ELSE
          LET piece == unwrap(cleared.squares[square_index(from)])
              color == get_color(piece)
              r1 == [cleared EXCEPT !.squares[square_index(from)] = None]
              r2 == IF is_starting_pawn(piece) /\ abs(from.row - to.row) = 2
                    THEN [r1 EXCEPT !.en_passant = Some(pawn_back(to, get_color(piece)))]
                    ELSE r1
              r3 == IF has_enemy_piece(r2, to, get_turn(r2))
                    THEN [r2 EXCEPT !.taken_piece = get_piece(r2, to)]
                    ELSE r2
              r4 == add_piece(r3, move_to(piece, to))
              home == get_piece(r4, king_pos(color)) = Some(King(color, king_pos(color)))
              corner(col) == Position(king_pos(color).row, col)
              rights == CastlingRights(
                          home /\ get_piece(r4, corner(7)) = Some(Rook(color, corner(7))),
                          home /\ get_piece(r4, corner(0)) = Some(Rook(color, corner(0))))
          IN  IF color = WHITE
              THEN [r4 EXCEPT !.white_castling_rights = rights]
              ELSE [r4 EXCEPT !.black_castling_rights = rights]

\* move_piece that clears both castling rights when a corner rook moves
move_piece_rook_clears_all(b, from, to) ==
    LET cleared == [b EXCEPT !.en_passant = None, !.taken_piece = None]
    IN  IF is_off_board(from) \/ is_off_board(to) THEN cleared
        ELSE IF is_none(cleared.squares[square_index(from)]) THEN cleared
        ELSE
          LET piece == unwrap(cleared.squares[square_index(from)])
              r1 == [cleared EXCEPT !.squares[square_index(from)] = None]
              r2 == IF is_starting_pawn(piece) /\ abs(from.row - to.row) = 2
                    THEN [r1 EXCEPT !.en_passant = Some(pawn_back(to, get_color(piece)))]
                    ELSE r1
              r3 == IF has_enemy_piece(r2, to, get_turn(r2))
                    THEN [r2 EXCEPT !.taken_piece = get_piece(r2, to)]
                    ELSE r2
              r4 == add_piece(r3, move_to(piece, to))
              rights(cr) == IF is_king(piece) THEN disable_all(cr)
                            ELSE IF is_queenside_rook(piece) THEN disable_all(cr)
                            ELSE IF is_kingside_rook(piece) THEN disable_all(cr)
                            ELSE cr
          IN  IF get_color(piece) = WHITE
              THEN [r4 EXCEPT !.white_castling_rights = rights(r4.white_castling_rights)]
              ELSE [r4 EXCEPT !.black_castling_rights = rights(r4.black_castling_rights)]

\* move_piece that keeps the en-passant square of the board it starts from
move_piece_keep_en_passant(b, from, to) ==
    LET cleared == [b EXCEPT !.taken_piece = None]
    IN  IF is_off_board(from) \/ is_off_board(to) THEN cleared
        ELSE IF is_none(cleared.squares[square_index(from)]) THEN cleared
        ELSE
          LET piece == unwrap(cleared.squares[square_index(from)])
              r1 == [cleared EXCEPT !.squares[square_index(from)] = None]
              r2 == IF is_starting_pawn(piece) /\ abs(from.row - to.row) = 2
                    THEN [r1 EXCEPT !.en_passant = Some(pawn_back(to, get_color(piece)))]
                    ELSE r1
              r3 == IF has_enemy_piece(r2, to, get_turn(r2))
                    THEN [r2 EXCEPT !.taken_piece = get_piece(r2, to)]
                    ELSE r2
              r4 == add_piece(r3, move_to(piece, to))
              rights(cr) == IF is_king(piece) THEN disable_all(cr)
                            ELSE IF is_queenside_rook(piece) THEN disable_queenside(cr)
                            ELSE IF is_kingside_rook(piece) THEN disable_kingside(cr)
                            ELSE cr
          IN  IF get_color(piece) = WHITE
              THEN [r4 EXCEPT !.white_castling_rights = rights(r4.white_castling_rights)]
              ELSE [r4 EXCEPT !.black_castling_rights = rights(r4.black_castling_rights)]

move_piece(b, from, to) ==
    LET cleared == [b EXCEPT !.en_passant = None, !.taken_piece = None]
    IN  IF is_off_board(from) \/ is_off_board(to) THEN cleared
        ELSE IF is_none(cleared.squares[square_index(from)]) THEN cleared
        ELSE
          LET piece == unwrap(cleared.squares[square_index(from)])
              \* each step of the function, applied to the board so far
              lift(r) == [r EXCEPT !.squares[square_index(from)] = None]
              mark(r) == IF is_starting_pawn(piece) /\ abs(from.row - to.row) = 2
                         THEN [r EXCEPT !.en_passant = Some(pawn_back(to, get_color(piece)))]
                         ELSE r
              take(r) == IF has_enemy_piece(r, to, get_turn(r))
                         THEN [r EXCEPT !.taken_piece = get_piece(r, to)]
                         ELSE r
              put(r) == add_piece(r, move_to(piece, to))
              rights(cr) == IF is_king(piece) THEN disable_all(cr)
                            ELSE IF is_queenside_rook(piece) THEN disable_queenside(cr)
                            ELSE IF is_kingside_rook(piece) THEN disable_kingside(cr)
                            ELSE cr
              update(r) ==
                IF get_color(piece) = WHITE
                THEN [r EXCEPT !.white_castling_rights = rights(r.white_castling_rights)]
                ELSE [r EXCEPT !.black_castling_rights = rights(r.black_castling_rights)]
          IN  update(put(take(mark(lift(cleared)))))

apply_kingside_castle(b) ==
    LET kp == get_king_pos(b, b.turn)
    IN  IF is_some(kp)
        THEN LET king == unwrap(kp)
                 rook_pos == IF b.turn = WHITE THEN Position(0, 7) ELSE Position(7, 7)
             IN  move_piece(move_piece(b, king, next_left(rook_pos)),
                            rook_pos, next_right(king))
        ELSE b

apply_queenside_castle(b) ==
    LET kp == get_king_pos(b, b.turn)
    IN  IF is_some(kp)
        THEN LET king == unwrap(kp)
                 rook_pos == IF b.turn = WHITE THEN Position(0, 0) ELSE Position(7, 0)
             IN  move_piece(move_piece(b, king, next_left(next_left(king))),
                            rook_pos, next_left(king))
        ELSE b

\* apply_piece_move that leaves the pawn passed en passant on the board
apply_piece_move_plain(b, from, to) == move_piece(b, from, to)

apply_piece_move(b, from, to) ==
    LET result == move_piece(b, from, to)
        fp == get_piece(b, from)
    IN  IF is_some(b.en_passant) /\ is_some(fp) /\ is_pawn(unwrap(fp))
        THEN LET en_passant == unwrap(b.en_passant)
                 player_color == get_color(unwrap(fp))
                 up == pawn_up(from, player_color)
             IN  IF /\ (en_passant = next_left(up) \/ en_passant = next_right(up))
                    /\ en_passant = to
                 THEN [result EXCEPT
                         !.squares[(7 - pawn_back(en_passant, player_color).row) * 8
                                   + en_passant.col + 1] = None]
                 ELSE result
        ELSE result

apply_move(b, m) ==
    CASE m.type = "KingSideCastle"  -> apply_kingside_castle(b)
      [] m.type = "QueenSideCastle" -> apply_queenside_castle(b)
      [] m.type = "Piece"           -> apply_piece_move(b, m.from, m.to)
      [] m.type = "Resign"          -> b

\* -- legality --------------------------------------------------------------
\* `a || b && c` binds as `a || (b && c)`
is_legal_move(b, m, player_color) ==
    CASE m.type = "KingSideCastle"  -> can_kingside_castle(b, player_color)
      [] m.type = "QueenSideCastle" -> can_queenside_castle(b, player_color)
      [] m.type = "Resign"          -> TRUE
      [] m.type = "Piece" ->
           LET fp == get_piece(b, m.from)
           IN  IF is_none(fp) THEN FALSE
               ELSE LET piece == unwrap(fp)
                    \* both arms of the match end with the same check test
                    IN  /\ \/ /\ is_pawn(piece)
                                 /\ is_some(b.en_passant)
                                 /\ LET en_passant == unwrap(b.en_passant)
                                        up == pawn_up(m.from, player_color)
                                    IN  /\ \/ en_passant = next_left(up)
                                           \/ (en_passant = next_right(up)
                                               /\ en_passant = m.to)
                                        /\ get_color(piece) = player_color
                              \/ (piece_is_legal_move(piece, m.to, b)
                                  /\ get_color(piece) = player_color)
                        /\ ~is_in_check(apply_move(b, m), player_color)

\* -- move generation (src/src/piece.rs) ------------------------------------
\* get_pawn_legal_moves without the double push
get_pawn_legal_moves_single(ally_color, pos, b) ==
    LET up == pawn_up(pos, ally_color)
        up_left == next_left(up)
        up_right == next_right(up)
    IN  (IF is_some(get_en_passant(b))
            /\ (unwrap(get_en_passant(b)) = up_left \/ unwrap(get_en_passant(b)) = up_right)
         THEN <<MovePiece(pos, unwrap(get_en_passant(b)))>> ELSE <<>>)
        \o (IF is_on_board(up) /\ has_no_piece(b, up)
            THEN <<MovePiece(pos, up)>> ELSE <<>>)
        \o (IF is_on_board(up_left) /\ has_enemy_piece(b, up_left, ally_color)
            THEN <<MovePiece(pos, next_left(up))>> ELSE <<>>)
        \o (IF is_on_board(up_right) /\ has_enemy_piece(b, next_right(up), ally_color)
            THEN <<MovePiece(pos, next_right(up))>> ELSE <<>>)

get_pawn_legal_moves(ally_color, pos, b) ==
    LET up == pawn_up(pos, ally_color)
        next_up == pawn_up(up, ally_color)
        up_left == next_left(up)
        up_right == next_right(up)
    IN  (IF is_some(get_en_passant(b))
            /\ (unwrap(get_en_passant(b)) = up_left \/ unwrap(get_en_passant(b)) = up_right)
         THEN <<MovePiece(pos, unwrap(get_en_passant(b)))>> ELSE <<>>)
        \o (IF /\ is_on_board(next_up)
               /\ pos_is_starting_pawn(pos, ally_color)
               /\ has_no_piece(b, up)
               /\ has_no_piece(b, next_up)
            THEN <<MovePiece(pos, next_up)>> ELSE <<>>)
        \o (IF is_on_board(up) /\ has_no_piece(b, up)
            THEN <<MovePiece(pos, up)>> ELSE <<>>)
        \o (IF is_on_board(up_left) /\ has_enemy_piece(b, up_left, ally_color)
            THEN <<MovePiece(pos, next_left(up))>> ELSE <<>>)
        \o (IF is_on_board(up_right) /\ has_enemy_piece(b, next_right(up), ally_color)
            THEN <<MovePiece(pos, next_right(up))>> ELSE <<>>)

get_king_legal_moves(ally_color, pos, b) ==
    LET around == << next_left(pos), next_right(pos), next_above(pos), next_below(pos),
                     next_above(next_left(pos)), next_below(next_left(pos)),
                     next_above(next_right(pos)), next_below(next_right(pos)) >>
        steps == SelectSeq(around,
                     LAMBDA p : is_on_board(p) /\ ~has_ally_piece(b, p, ally_color))
    IN  [k \in 1..Len(steps) |-> MovePiece(pos, steps[k])]
        \o (IF can_kingside_castle(b, ally_color) THEN <<KingSideCastle>> ELSE <<>>)
        \o (IF can_queenside_castle(b, ally_color) THEN <<QueenSideCastle>> ELSE <<>>)

get_rook_legal_moves(ally_color, pos, b) ==
    LET keep(new_pos) == /\ new_pos # pos
                         /\ ~has_ally_piece(b, new_pos, ally_color)
                         /\ is_orthogonal_to(new_pos, pos)
        by_row == SelectSeq([r \in 1..8 |-> Position(r - 1, pos.col)], keep)
        by_col == SelectSeq([c \in 1..8 |-> Position(pos.row, c - 1)], keep)
        dests == by_row \o by_col
    IN  [k \in 1..Len(dests) |-> MovePiece(pos, dests[k])]

get_bishop_legal_moves(ally_color, pos, b) ==
    LET keep(new_pos) == /\ new_pos # pos
                         /\ ~has_ally_piece(b, new_pos, ally_color)
                         /\ is_diagonal_to(new_pos, pos)
        dests == SelectSeq([k \in 1..64 |-> Position((k - 1) \div 8, (k - 1) % 8)], keep)
    IN  [k \in 1..Len(dests) |-> MovePiece(pos, dests[k])]

get_queen_legal_moves(ally_color, pos, b) ==
    get_bishop_legal_moves(ally_color, pos, b) \o get_rook_legal_moves(ally_color, pos, b)

get_knight_legal_moves(ally_color, pos, b) ==
    LET jumps == << next_above(next_left(next_left(pos))),
                    next_above(next_above(next_left(pos))),
                    next_below(next_left(next_left(pos))),
                    next_below(next_below(next_left(pos))),
                    next_above(next_right(next_right(pos))),
                    next_above(next_above(next_right(pos))),
                    next_below(next_right(next_right(pos))),
                    next_below(next_below(next_right(pos))) >>
        dests == SelectSeq(jumps,
                     LAMBDA p : is_on_board(p) /\ ~has_ally_piece(b, p, ally_color))
    IN  [k \in 1..Len(dests) |-> MovePiece(pos, dests[k])]

\* get_legal_moves of a piece that returns the candidates unfiltered
piece_get_legal_moves_unfiltered(piece, b) ==
    CASE piece.kind = "Pawn"   -> get_pawn_legal_moves(piece.color, piece.pos, b)
      [] piece.kind = "King"   -> get_king_legal_moves(piece.color, piece.pos, b)
      [] piece.kind = "Queen"  -> get_queen_legal_moves(piece.color, piece.pos, b)
      [] piece.kind = "Rook"   -> get_rook_legal_moves(piece.color, piece.pos, b)
      [] piece.kind = "Bishop" -> get_bishop_legal_moves(piece.color, piece.pos, b)
      [] piece.kind = "Knight" -> get_knight_legal_moves(piece.color, piece.pos, b)

piece_get_legal_moves(piece, b) ==
    LET result ==
          CASE piece.kind = "Pawn"   -> get_pawn_legal_moves(piece.color, piece.pos, b)
            [] piece.kind = "King"   -> get_king_legal_moves(piece.color, piece.pos, b)
            [] piece.kind = "Queen"  -> get_queen_legal_moves(piece.color, piece.pos, b)
            [] piece.kind = "Rook"   -> get_rook_legal_moves(piece.color, piece.pos, b)
            [] piece.kind = "Bishop" -> get_bishop_legal_moves(piece.color, piece.pos, b)
            [] piece.kind = "Knight" -> get_knight_legal_moves(piece.color, piece.pos, b)
        color == get_color(piece)
    IN  SelectSeq(result,
            LAMBDA x : /\ x.type = "Piece" => is_on_board(x.from) /\ is_on_board(x.to)
                       /\ is_legal_move(b, x, color))

RECURSIVE legal_moves_from(_, _, _)
legal_moves_from(b, color, i) ==
    IF i > 64 THEN <<>>
    ELSE (IF is_some(b.squares[i]) /\ get_color(unwrap(b.squares[i])) = color
          THEN piece_get_legal_moves(unwrap(b.squares[i]), b)
          ELSE <<>>) \o legal_moves_from(b, color, i + 1)

get_legal_moves(b, color) == legal_moves_from(b, color, 1)

\* -- material --------------------------------------------------------------
\* derived Ord of Piece: variant order, then color, then position (row, col)
piece_key(piece) ==
    (CASE piece.kind = "King" -> 0 [] piece.kind = "Queen" -> 1
       [] piece.kind = "Rook" -> 2 [] piece.kind = "Bishop" -> 3
       [] piece.kind = "Knight" -> 4 [] piece.kind = "Pawn" -> 5) * 1000
    + (IF piece.color = WHITE THEN 0 ELSE 1) * 100
    + piece.pos.row * 10 + piece.pos.col

sort(pieces) ==
    [k \in 1..Len(pieces) |->
        LET i == CHOOSE i \in 1..Len(pieces) :
                    Cardinality({j \in 1..Len(pieces) :
                        piece_key(pieces[j]) < piece_key(pieces[i])}) = k - 1
        IN  pieces[i]]

\* has_sufficient_material that matches the pieces in board order, unsorted
has_sufficient_material_unsorted(b, color) ==
    LET pieces == get_player_pieces(b, color)
        n == Len(pieces)
    IN  ~ \/ n = 0
          \/ (n = 1 /\ is_king(pieces[1]))
          \/ (n = 2 /\ is_king(pieces[1]) /\ is_knight(pieces[2]))
          \/ (n = 2 /\ is_king(pieces[1]) /\ is_bishop(pieces[2]))
          \/ (n = 3 /\ is_king(pieces[1]) /\ is_knight(pieces[2]) /\ is_knight(pieces[3]))
          \/ (n = 3 /\ is_king(pieces[1]) /\ is_bishop(pieces[2]) /\ is_bishop(pieces[3]))

has_sufficient_material(b, color) ==
    LET unsorted == get_player_pieces(b, color)
        n == Len(unsorted)
        pieces == sort(unsorted)
    IN  ~ \/ n = 0
          \/ (n = 1 /\ is_king(pieces[1]))
          \/ (n = 2 /\ is_king(pieces[1]) /\ is_knight(pieces[2]))
          \/ (n = 2 /\ is_king(pieces[1]) /\ is_bishop(pieces[2]))
          \/ (n = 3 /\ is_king(pieces[1]) /\ is_knight(pieces[2]) /\ is_knight(pieces[3]))
          \/ (n = 3 /\ is_king(pieces[1]) /\ is_bishop(pieces[2]) /\ is_bishop(pieces[3]))

has_insufficient_material(b, color) == ~has_sufficient_material(b, color)

\* is_stalemate that looks at the moves of the side to move only
is_stalemate_moves_only(b) ==
    get_legal_moves(b, get_turn(b)) = <<>> /\ ~is_in_check(b, get_turn(b))

is_stalemate(b) ==
    \/ (get_legal_moves(b, get_turn(b)) = <<>> /\ ~is_in_check(b, get_turn(b)))
    \/ (has_insufficient_material(b, b.turn) /\ has_insufficient_material(b, Not(b.turn)))

is_checkmate(b) ==
    is_in_check(b, get_turn(b)) /\ get_legal_moves(b, get_turn(b)) = <<>>

\* -- evaluation -------------------------------------------------------------
\* Ratings are f64 in the source; every weight is a multiple of 0.5, so the
\* model keeps every rating in halves of a point (rating * 2), as an integer.
\* the position weights of src/src/piece.rs, in halves of a point (all are
\* multiples of 0.5): position_weights[kind][color][8 - row][col + 1]
position_weights ==
    [
      King |-> [
        White |-> <<
            <<-6, -8, -8, -10, -10, -8, -8, -6>>,
            <<-6, -8, -8, -10, -10, -8, -8, -6>>,
            <<-6, -8, -8, -10, -10, -8, -8, -6>>,
            <<-6, -8, -8, -10, -10, -8, -8, -6>>,
            <<-4, -6, -6, -8, -8, -6, -6, -4>>,
            <<-2, -4, -4, -4, -4, -4, -4, -2>>,
            <<4, 4, 0, 0, 0, 0, 4, 4>>,
            <<4, 6, 2, 0, 0, 2, 6, 4>> >>,
        Black |-> <<
            <<4, 6, 2, 0, 0, 2, 6, 4>>,
            <<4, 4, 0, 0, 0, 0, 4, 4>>,
            <<-2, -4, -4, -4, -4, -4, -4, -2>>,
            <<-4, -6, -6, -8, -8, -6, -6, -4>>,
            <<-6, -8, -8, -10, -10, -8, -8, -6>>,
            <<-6, -8, -8, -10, -10, -8, -8, -6>>,
            <<-6, -8, -8, -10, -10, -8, -8, -6>>,
            <<-6, -8, -8, -10, -10, -8, -8, -6>> >> ],
      Queen |-> [
        White |-> <<
            <<-4, -2, -2, -1, -1, -2, -2, -4>>,
            <<-2, 0, 0, 0, 0, 0, 0, -2>>,
            <<-2, 0, 1, 1, 1, 1, 0, -2>>,
            <<-1, 0, 1, 1, 1, 1, 0, -1>>,
            <<0, 0, 1, 1, 1, 1, 0, -1>>,
            <<-2, 1, 1, 1, 1, 1, 0, -2>>,
            <<-2, 0, 1, 0, 0, 0, 0, -2>>,
            <<-2, 0, -2, -1, -1, -1, -2, -4>> >>,
        Black |-> <<
            <<-2, 0, -2, -1, -1, -1, -2, -4>>,
            <<-2, 0, 1, 0, 0, 0, 0, -2>>,
            <<-2, 1, 1, 1, 1, 1, 0, -2>>,
            <<0, 0, 1, 1, 1, 1, 0, -1>>,
            <<-1, 0, 1, 1, 1, 1, 0, -1>>,
            <<-2, 0, 1, 1, 1, 1, 0, -2>>,
            <<-2, 0, 0, 0, 0, 0, 0, -2>>,
            <<-4, -2, -2, -1, -1, -2, -2, -4>> >> ],
      Rook |-> [
        White |-> <<
            <<0, 0, 0, 0, 0, 0, 0, 0>>,
            <<1, 2, 2, 2, 2, 2, 2, 1>>,
            <<-1, 0, 0, 0, 0, 0, 0, -1>>,
            <<-1, 0, 0, 0, 0, 0, 0, -1>>,
            <<-1, 0, 0, 0, 0, 0, 0, -1>>,
            <<-1, 0, 0, 0, 0, 0, 0, -1>>,
            <<-1, 0, 0, 0, 0, 0, 0, -1>>,
            <<0, 0, 0, 1, 1, 0, 0, 0>> >>,
        Black |-> <<
            <<0, 0, 0, 1, 1, 0, 0, 0>>,
            <<-1, 0, 0, 0, 0, 0, 0, -1>>,
            <<-1, 0, 0, 0, 0, 0, 0, -1>>,
            <<-1, 0, 0, 0, 0, 0, 0, -1>>,
            <<-1, 0, 0, 0, 0, 0, 0, -1>>,
            <<-1, 0, 0, 0, 0, 0, 0, -1>>,
            <<1, 2, 2, 2, 2, 2, 2, 1>>,
            <<0, 0, 0, 0, 0, 0, 0, 0>> >> ],
      Bishop |-> [
        White |-> <<
            <<-4, -2, -2, -2, -2, -2, -2, -4>>,
            <<-2, 0, 0, 0, 0, 0, 0, -2>>,
            <<-2, 0, 1, 2, 2, 1, 0, -2>>,
            <<-2, 1, 1, 2, 2, 1, 1, -2>>,
            <<-2, 0, 2, 2, 2, 2, 0, -2>>,
            <<-2, 2, 2, 2, 2, 2, 2, -2>>,
            <<-2, 1, 0, 0, 0, 0, 1, -2>>,
            <<-4, -2, -2, -2, -2, -2, -2, -4>> >>,
        Black |-> <<
            <<-4, -2, -2, -2, -2, -2, -2, -4>>,
            <<-2, 1, 0, 0, 0, 0, 1, -2>>,
            <<-2, 2, 2, 2, 2, 2, 2, -2>>,
            <<-2, 0, 2, 2, 2, 2, 0, -2>>,
            <<-2, 1, 1, 2, 2, 1, 1, -2>>,
            <<-2, 0, 1, 2, 2, 1, 0, -2>>,
            <<-2, 0, 0, 0, 0, 0, 0, -2>>,
            <<-4, -2, -2, -2, -2, -2, -2, -4>> >> ],
      Knight |-> [
        White |-> <<
            <<-10, -8, -6, -6, -6, -6, -8, -10>>,
            <<-8, -4, 0, 0, 0, 0, -4, -8>>,
            <<-6, 0, 2, 3, 3, 2, 0, -6>>,
            <<-6, 1, 3, 4, 4, 3, 1, -6>>,
            <<-6, 0, 3, 4, 4, 3, 0, -6>>,
            <<-6, 1, 2, 3, 3, 2, 1, -6>>,
            <<-8, -4, 0, 1, 1, 0, -4, -8>>,
            <<-10, -8, -6, -6, -6, -6, -8, -10>> >>,
        Black |-> <<
            <<-10, -8, -6, -6, -6, -6, -8, -10>>,
            <<-8, -4, 0, 1, 1, 0, -4, -8>>,
            <<-6, 1, 2, 3, 3, 2, 1, -6>>,
            <<-6, 0, 3, 4, 4, 3, 0, -6>>,
            <<-6, 1, 3, 4, 4, 3, 1, -6>>,
            <<-6, 0, 2, 3, 3, 2, 0, -6>>,
            <<-8, -4, 0, 0, 0, 0, -4, -8>>,
            <<-10, -8, -6, -6, -6, -6, -8, -10>> >> ],
      Pawn |-> [
        White |-> <<
            <<0, 0, 0, 0, 0, 0, 0, 0>>,
            <<10, 10, 10, 10, 10, 10, 10, 10>>,
            <<2, 2, 4, 6, 6, 4, 2, 2>>,
            <<1, 1, 2, 5, 5, 2, 1, 1>>,
            <<0, 0, 0, 4, 4, 0, 0, 0>>,
            <<1, -1, -2, 0, 0, -2, -1, 1>>,
            <<1, 3, -2, -4, -4, 2, 3, 1>>,
            <<0, 0, 0, 0, 0, 0, 0, 0>> >>,
        Black |-> <<
            <<0, 0, 0, 0, 0, 0, 0, 0>>,
            <<1, 3, -2, -4, -4, 2, 3, 1>>,
            <<1, -1, -2, 0, 0, -2, -1, 1>>,
            <<0, 0, 0, 4, 4, 0, 0, 0>>,
            <<1, 1, 2, 5, 5, 2, 1, 1>>,
            <<2, 2, 4, 6, 6, 4, 2, 2>>,
            <<10, 10, 10, 10, 10, 10, 10, 10>>,
            <<0, 0, 0, 0, 0, 0, 0, 0>> >> ] ]

get_weighted_value(piece) ==
    LET get_material_value ==
          CASE piece.kind = "King" -> 99999 [] piece.kind = "Queen" -> 9
            [] piece.kind = "Rook" -> 5     [] piece.kind = "Bishop" -> 3
            [] piece.kind = "Knight" -> 3   [] piece.kind = "Pawn" -> 1
        weights == position_weights[piece.kind][piece.color]
    IN  weights[(7 - piece.pos.row) + 1][piece.pos.col + 1] + 2 * (get_material_value * 10)

\* the sum over the squares (the source adds them one by one; the sum of
\* integers does not depend on the grouping, here halves of lo..hi)
get_player_value(b, color) ==
    LET RECURSIVE sum(_, _)
        sum(lo, hi) ==
          IF lo = hi
          THEN IF is_none(b.squares[lo]) THEN 0
               ELSE IF get_color(unwrap(b.squares[lo])) = color
                    THEN get_weighted_value(unwrap(b.squares[lo]))
                    ELSE 0 - get_weighted_value(unwrap(b.squares[lo]))
          ELSE sum(lo, (lo + hi) \div 2) + sum((lo + hi) \div 2 + 1, hi)
    IN  sum(1, 64)

\* 999999.0 becomes 1999998 and 1000000.0 becomes 2000000 in halves
RECURSIVE minimax(_, _, _, _, _, _)
RECURSIVE minimax_each(_, _, _, _, _, _, _, _, _)
RECURSIVE minimax_visit(_, _, _, _, _, _, _, _, _, _)
minimax(b, depth, alpha, beta, is_maximizing, getting_move_for) ==
    IF depth = 0 THEN get_player_value(b, getting_move_for)
    ELSE minimax_each(b, depth, is_maximizing, getting_move_for,
                      get_legal_moves(b, get_turn(b)), 1,
                      IF is_maximizing THEN -1999998 ELSE 1999998, alpha, beta)

\* the loop of minimax over legal_moves, from the i-th move on
minimax_each(b, depth, is_maximizing, getting_move_for, legal_moves, i, best_move_value, a, bt) ==
    IF i > Len(legal_moves) THEN best_move_value
    ELSE minimax_visit(b, depth, is_maximizing, getting_move_for,
                       legal_moves, i, best_move_value, a, bt,
                       minimax(apply_move(b, legal_moves[i]), depth - 1, a, bt,
                               ~is_maximizing, getting_move_for))

\* the body of the loop once the child board has its value
minimax_visit(b, depth, is_maximizing, getting_move_for, legal_moves, i, best_move_value, a, bt, child_board_value) ==
    IF is_maximizing
    THEN LET best == IF child_board_value > best_move_value
                     THEN child_board_value ELSE best_move_value
             a1 == IF best > a THEN best ELSE a
         IN  IF bt <= a1 THEN best
             ELSE minimax_each(b, depth, is_maximizing, getting_move_for,
                               legal_moves, i + 1, best, a1, bt)
    ELSE LET best == IF child_board_value < best_move_value
                     THEN child_board_value ELSE best_move_value
             bt1 == IF best < bt THEN best ELSE bt
         IN  IF bt1 <= a THEN best
             ELSE minimax_each(b, depth, is_maximizing, getting_move_for,
                               legal_moves, i + 1, best, a, bt1)

\* a RatedMove is the pair <<move, rating>>; rate is the map over legal_moves
rate(b, depth, color, legal_moves) ==
    [k \in 1..Len(legal_moves) |->
        <<legal_moves[k],
          minimax(apply_move(b, legal_moves[k]), depth, -2000000, 2000000, FALSE, color)>>]

rate_legal_moves(b, depth) ==
    rate(b, depth, get_turn(b), get_legal_moves(b, get_turn(b)))

\* Iterator::max_by folds with `if compare(x, y) = Greater then x else y`;
\* keep_first is FALSE in the code: of two equally rated moves the later stays
RECURSIVE max_by(_, _, _, _)
max_by(rated, x, i, keep_first) ==
    IF i > Len(rated) THEN x
    ELSE max_by(rated,
                IF x[2] > rated[i][2] \/ (keep_first /\ x[2] = rated[i][2])
                THEN x ELSE rated[i],
                i + 1, keep_first)

\* get_best_next_move keeping the earlier of two equally rated moves
get_best_next_move_first(b, depth) ==
    LET best_of(rated) ==
          IF rated = <<>> THEN <<Resign, -1999998>> ELSE max_by(rated, rated[1], 2, TRUE)
    IN  best_of(rate_legal_moves(b, depth))

get_best_next_move(b, depth) ==
    LET best_of(rated) ==
          IF rated = <<>> THEN <<Resign, -1999998>> ELSE max_by(rated, rated[1], 2, FALSE)
    IN  best_of(rate_legal_moves(b, depth))

\* -- MoveResult (src/src/board/types.rs) -----------------------------------
MoveResult(kind, b, pos, color, m) ==
    [kind |-> kind, board |-> b, pos |-> pos, color |-> color, move |-> m]

Continuing(b) == MoveResult("Continuing", Some(b), None, None, None)

Promote(b, pos) == MoveResult("Promote", Some(b), Some(pos), None, None)

Victory(color) == MoveResult("Victory", None, None, Some(color), None)

Stalemate == MoveResult("Stalemate", None, None, None, None)

IllegalMove(m) == MoveResult("IllegalMove", None, None, None, Some(m))

\* the call did not return: panic!()
Panic == MoveResult("Panic", None, None, None, None)

\* a plain Board handed back by promote()
Returned(b) == MoveResult("Board", Some(b), None, None, None)

\* nothing returned yet / the last returned value has been consumed
NoResult == MoveResult("NoResult", None, None, None, None)

\* -- promotion and the move state machine ----------------------------------
check_available_pawn_promotion(b) ==
    LET ps == {i \in 1..64 : /\ is_some(b.squares[i])
                             /\ is_promoting_pawn(unwrap(b.squares[i]))
                             /\ get_color(unwrap(b.squares[i])) = get_turn(b)}
    IN  [b EXCEPT !.promotion =
            IF ps = {} THEN None
            ELSE Some(get_pos(unwrap(b.squares[CHOOSE i \in ps : \A j \in ps : j <= i])))]

\* play_move that looks for a promotion before it looks for the end of the game
play_move_promotion_first(b, m) ==
    LET current_color == get_turn(b)
    IN  IF is_some(b.promotion) THEN Panic
        ELSE IF m = Resign THEN Victory(Not(current_color))
        ELSE IF is_legal_move(b, m, current_color)
        THEN LET next_turn == apply_move(b, m)
                 promo == check_available_pawn_promotion(next_turn)
             IN  IF is_some(promo.promotion)
                 THEN Promote(promo, unwrap(promo.promotion))
                 ELSE IF is_checkmate(change_turn(next_turn)) THEN Victory(current_color)
                 ELSE IF is_stalemate(change_turn(next_turn)) THEN Stalemate
                 ELSE Continuing(change_turn(promo))
        ELSE IllegalMove(m)

\* play_move that accepts a resignation while a promotion is pending
play_move_resign_first(b, m) ==
    LET current_color == get_turn(b)
    IN  IF m = Resign THEN Victory(Not(current_color))
        ELSE IF is_some(b.promotion) THEN Panic
        ELSE IF is_legal_move(b, m, current_color)
        THEN LET next_turn == apply_move(b, m)
             IN  IF is_checkmate(change_turn(next_turn)) THEN Victory(current_color)
                 ELSE IF is_stalemate(change_turn(next_turn)) THEN Stalemate
                 ELSE LET promo == check_available_pawn_promotion(next_turn)
                      IN  IF is_some(promo.promotion)
                          THEN Promote(promo, unwrap(promo.promotion))
                          ELSE Continuing(change_turn(promo))
        ELSE IllegalMove(m)

\* play_move that awards the game to the side that resigns
play_move_resign_self(b, m) ==
    LET current_color == get_turn(b)
    IN  IF is_some(b.promotion) THEN Panic
        ELSE IF m = Resign THEN Victory(current_color)
        ELSE IF is_legal_move(b, m, current_color)
        THEN LET next_turn == apply_move(b, m)
             IN  IF is_checkmate(change_turn(next_turn)) THEN Victory(current_color)
                 ELSE IF is_stalemate(change_turn(next_turn)) THEN Stalemate
                 ELSE LET promo == check_available_pawn_promotion(next_turn)
                      IN  IF is_some(promo.promotion)
                          THEN Promote(promo, unwrap(promo.promotion))
                          ELSE Continuing(change_turn(promo))
        ELSE IllegalMove(m)

\* play_move that reports a rejected piece move with its squares swapped
play_move_swapped_report(b, m) ==
    LET current_color == get_turn(b)
    IN  IF is_some(b.promotion) THEN Panic
        ELSE IF m = Resign THEN Victory(Not(current_color))
        ELSE IF is_legal_move(b, m, current_color)
        THEN LET next_turn == apply_move(b, m)
             IN  IF is_checkmate(change_turn(next_turn)) THEN Victory(current_color)
                 ELSE IF is_stalemate(change_turn(next_turn)) THEN Stalemate
                 ELSE LET promo == check_available_pawn_promotion(next_turn)
                      IN  IF is_some(promo.promotion)
                          THEN Promote(promo, unwrap(promo.promotion))
                          ELSE Continuing(change_turn(promo))
        ELSE IllegalMove([m EXCEPT !.from = m.to, !.to = m.from])

play_move(b, m) ==
    LET current_color == get_turn(b)
    IN  IF is_some(b.promotion) THEN Panic
        ELSE IF m = Resign THEN Victory(Not(current_color))
        ELSE IF is_legal_move(b, m, current_color)
        THEN LET next_turn == apply_move(b, m)
             IN  IF is_checkmate(change_turn(next_turn)) THEN Victory(current_color)
                 ELSE IF is_stalemate(change_turn(next_turn)) THEN Stalemate
                 ELSE LET promo == check_available_pawn_promotion(next_turn)
                      IN  IF is_some(promo.promotion)
                          THEN Promote(promo, unwrap(promo.promotion))
                          ELSE Continuing(change_turn(promo))
        ELSE IllegalMove(m)

\* promote that leaves the turn with the side that promoted
promote_keep_turn(b, promotion) ==
    IF is_some(b.promotion)
    THEN LET pos == unwrap(b.promotion)
             result == [b EXCEPT !.promotion = None]
             color == get_turn(result)
         IN  Returned(add_piece(result, Piece(promotion, color, pos)))
    ELSE Panic

\* promote that hands the board over when no promotion is pending
promote_unchecked(b, promotion) ==
    IF is_some(b.promotion)
    THEN LET pos == unwrap(b.promotion)
             result == [b EXCEPT !.promotion = None]
             color == get_turn(result)
         IN  Returned(change_turn(add_piece(result, Piece(promotion, color, pos))))
    ELSE Returned(change_turn(b))

\* promote that forgets the piece taken by the promoting move
promote_forget_taken(b, promotion) ==
    IF is_some(b.promotion)
    THEN LET pos == unwrap(b.promotion)
             result == [b EXCEPT !.promotion = None, !.taken_piece = None]
             color == get_turn(result)
         IN  Returned(change_turn(add_piece(result, Piece(promotion, color, pos))))
    ELSE Panic

\* promote that leaves the pending square on the board it returns
promote_keep_pending(b, promotion) ==
    IF is_some(b.promotion)
    THEN LET pos == unwrap(b.promotion)
             color == get_turn(b)
         IN  Returned(change_turn(add_piece(b, Piece(promotion, color, pos))))
    ELSE Panic

promote(b, promotion) ==
    IF is_some(b.promotion)
    THEN LET pos == unwrap(b.promotion)
             result == [b EXCEPT !.promotion = None]
             color == get_turn(result)
         IN  Returned(change_turn(add_piece(result, Piece(promotion, color, pos))))
    ELSE Panic

\* ------------------------------------------------------------------------
\* BoardBuilder (src/src/board/builder.rs) and the constructors
\* ------------------------------------------------------------------------
BoardBuilder_default ==
    [Board_empty EXCEPT !.white_castling_rights = disable_all(@),
                        !.black_castling_rights = disable_all(@)]

builder_piece(b, piece) == [b EXCEPT !.squares[square_index(get_pos(piece))] = Some(piece)]

\* row that fills the row with the piece as given, position included
builder_row_clones(b, piece) ==
    [b EXCEPT !.squares = [i \in 1..64 |->
        IF index_pos(i - 1).row = get_pos(piece).row
        THEN Some(piece)
        ELSE @[i]]]

builder_row(b, piece) ==
    [b EXCEPT !.squares = [i \in 1..64 |->
        IF index_pos(i - 1).row = get_pos(piece).row
        THEN Some(move_to(piece, index_pos(i - 1)))
        ELSE @[i]]]

\* the statement `self.board.set_turn(color);` drops the board set_turn
\* returns; the builder is returned with the board it had
player_moving(b, color) ==
    LET dropped == set_turn(b, color)
    IN  b

enable_castling(b) ==
    [b EXCEPT !.black_castling_rights = enable_all(@),
              !.white_castling_rights = enable_all(@)]

RECURSIVE builder_pieces(_, _)
builder_pieces(b, ps) ==
    IF ps = <<>> THEN b ELSE builder_pieces(builder_piece(b, Head(ps)), Tail(ps))

Board_default ==
    enable_castling(
      builder_pieces(
        builder_row(
          builder_row(
            builder_pieces(BoardBuilder_default,
              << Rook(BLACK, position.A8), Knight(BLACK, position.B8), Bishop(BLACK, position.C8), Queen(BLACK, position.D8),
                 King(BLACK, position.E8), Bishop(BLACK, position.F8), Knight(BLACK, position.G8), Rook(BLACK, position.H8) >>),
            Pawn(BLACK, position.A7)),
          Pawn(WHITE, position.A2)),
        << Rook(WHITE, position.A1), Knight(WHITE, position.B1), Bishop(WHITE, position.C1), Queen(WHITE, position.D1),
           King(WHITE, position.E1), Bishop(WHITE, position.F1), Knight(WHITE, position.G1), Rook(WHITE, position.H1) >>))

\* the four rows of white pawns shared by the horde and dunsany boards
pawn_rows(b) ==
    builder_row(
      builder_row(
        builder_row(
          builder_row(b, Pawn(WHITE, position.A1)),
          Pawn(WHITE, position.A2)),
        Pawn(WHITE, position.A3)),
      Pawn(WHITE, position.A4))

Board_horde ==
    builder_pieces(pawn_rows(Board_default),
      << Pawn(WHITE, position.F5), Pawn(WHITE, position.G5), Pawn(WHITE, position.B5), Pawn(WHITE, position.C5) >>)

Board_dunsany == change_turn(pawn_rows(Board_default))

\* ------------------------------------------------------------------------
\* Game (src/src/game): the board with clocks, history, metadata and options
\* ------------------------------------------------------------------------
\* Duration::MAX, in a unit no sum of thinking times of a game comes near
Duration_MAX == 1000000

\* -- Clock (src/src/game/clock.rs) -----------------------------------------
Clock(white, black) == [black |-> black, white |-> white]

player_remaining_time(clock, player) ==
    IF player = BLACK THEN clock.black ELSE clock.white

\* checked_sub(amount).unwrap_or(Duration::ZERO)
checked_sub_or_zero(d, amount) == IF amount > d THEN 0 ELSE d - amount

\* sub_time that leaves the clock alone when the amount exceeds it
sub_time_unsaturated(clock, player, amount) ==
    IF player = BLACK
    THEN [clock EXCEPT !.black = IF amount > @ THEN @ ELSE @ - amount]
    ELSE [clock EXCEPT !.white = IF amount > @ THEN @ ELSE @ - amount]

sub_time(clock, player, amount) ==
    IF player = BLACK
    THEN [clock EXCEPT !.black = checked_sub_or_zero(@, amount)]
    ELSE [clock EXCEPT !.white = checked_sub_or_zero(@, amount)]

timeout(clock, player) == player_remaining_time(clock, player) = 0

\* -- results (src/src/game/result.rs) --------------------------------------
\* GameState::Continuing, GameState::Ended(EndGame::Victory(color, reason)),
\* GameState::Ended(EndGame::Draw)
GameState(tag, color, reason) == [tag |-> tag, color |-> color, reason |-> reason]

\* Ok((state, event)), the event being the set of the flags that are set
Ok(state, event) == [kind |-> "Ok", state |-> Some(state), event |-> event, err |-> None]

\* Err(GameError::IllegalMove(m))
Err(error) == [kind |-> "Err", state |-> None, event |-> {}, err |-> Some(error)]

\* the call did not return: Board::play_move panicked under it
Unwound == [kind |-> "Panic", state |-> None, event |-> {}, err |-> None]

was_illegal_move(res) ==
    res.kind = "Err" /\ res.err[1].tag = "IllegalMove"

set_result_event(res, ev) ==
    IF res.kind = "Ok" THEN [res EXCEPT !.event = @ \cup {ev}] ELSE res

\* -- Game (src/src/game/mod.rs) --------------------------------------------
\* Metadata::default() has result: Result::Unknown
Game_default ==
    [board    |-> Board_default,
     clock    |-> Clock(Duration_MAX, Duration_MAX),
     metadata |-> [result |-> "Unknown"],
     moves    |-> <<>>,
     options  |-> [threefold_repetition |-> TRUE, fivefold_repetition |-> TRUE]]

GameMove(m, player, turn, time, piece_taken, promotion) ==
    [itself |-> m, player |-> player, turn |-> turn, time |-> time,
     piece_taken |-> piece_taken, promotion |-> promotion]

in_progress(g) == g.metadata.result = "InProgress"

has_terminated(g) == ~in_progress(g)

set_result_win(g, color) ==
    [g EXCEPT !.metadata.result = IF color = BLACK THEN "BlackWins" ELSE "WhiteWins"]

set_result_drawn(g) == [g EXCEPT !.metadata.result = "DrawnGame"]

\* moves.iter().rev().take(2 * repetitions): every one equal to the first
is_n_repetition(g, repetitions) ==
    LET n == repetitions * 2
        len == Len(g.moves)
    IN  IF len < n \/ len = 0 THEN FALSE
        ELSE \A k \in 0..(n - 1) : g.moves[len - k].itself = g.moves[len].itself

is_threefold_repetition(g) == is_n_repetition(g, 3)

is_fivefold_repetition(g) == is_n_repetition(g, 5)

push_move(g, m, player, turn, time, piece_taken) ==
    [g EXCEPT !.moves = Append(@, GameMove(m, player, turn, time, piece_taken, None))]

patch_last_move_promotion(g, p) ==
    IF g.moves = <<>> THEN g
    ELSE [g EXCEPT !.moves[Len(g.moves)].promotion = Some(p)]

\* Board::is_check and Board::get_promoting_pawn, which Game calls
is_check(b) == is_in_check(b, get_turn(b))

get_promoting_pawn(b) == b.promotion

\* the pair of the game after the call and the GameResult the call returns
handle_move_result(g, res, has_promoted) ==
    LET patched == IF is_some(has_promoted)
                   THEN patch_last_move_promotion(g, unwrap(has_promoted))
                   ELSE g
    IN  CASE res.kind \in {"Continuing", "Promote"} ->
               [game   |-> [patched EXCEPT !.board = unwrap(res.board)],
                result |-> Ok(GameState("Continuing", None, None), {})]
          [] res.kind = "Victory" ->
               [game   |-> set_result_win(patched, unwrap(res.color)),
                result |-> Ok(GameState("Victory", res.color, Some("Checkmate")), {})]
          [] res.kind = "Stalemate" ->
               [game   |-> set_result_drawn(patched),
                result |-> Ok(GameState("Draw", None, None), {})]
          [] res.kind = "IllegalMove" ->
               [game   |-> patched,
                result |-> Err([tag |-> "IllegalMove", move |-> res.move])]

check_events(g, result) ==
    LET flag(on, ev, res) == IF on THEN set_result_event(res, ev) ELSE res
        threefold == is_threefold_repetition(g)
        fivefold == is_fivefold_repetition(g) /\ g.options.fivefold_repetition
    IN  [game   |-> IF (threefold /\ g.options.threefold_repetition) \/ fivefold
                    THEN set_result_drawn(g) ELSE g,
         result |-> flag(fivefold, "FIVEFOLD_REPETITION",
                    flag(threefold, "THREEFOLD_REPETITION",
                    flag(is_some(get_promoting_pawn(g.board)), "PROMOTION_AVAILABLE",
                    flag(is_checkmate(g.board), "CHECKMATE",
                    flag(is_check(g.board), "CHECK", result)))))]

\* play_move from the point where Board::play_move has returned `res`
board_moved(g, m, player, turn, time, res) ==
    IF res.kind = "Panic" THEN [game |-> g, result |-> Unwound]
    ELSE
      LET handled == handle_move_result(g, res, None)
          pushed == IF was_illegal_move(handled.result) THEN handled.game
                    ELSE push_move(handled.game, m, player, turn, time,
                                   handled.game.board.taken_piece)
          checked(c) ==
            IF c.result.kind = "Ok" /\ c.result.state[1].tag = "Victory"
            THEN [c EXCEPT !.game = set_result_win(@, unwrap(c.result.state[1].color))]
            ELSE c
      IN  checked(check_events(pushed, handled.result))

\* play_move from the point where the clock has been charged
clock_charged(g, m, player, turn, time) ==
    IF timeout(g.clock, player)
    THEN [game   |-> set_result_win(g, Not(player)),
          result |-> Ok(GameState("Victory", Some(Not(player)), Some("Timeout")), {})]
    ELSE board_moved(g, m, player, turn, time, play_move(g.board, m))

Game_play_move(g, m, time) ==
    clock_charged([g EXCEPT !.clock = sub_time(@, get_turn(g.board), time)],
            m, get_turn(g.board), Len(g.moves) \div 2 + 1, time)

Game_resign(g) == handle_move_result(g, play_move(g.board, Resign), None)

Game_draw(g) ==
    [game |-> set_result_drawn(g), result |-> Ok(GameState("Draw", None, None), {})]

\* -- GameBuilder (src/src/game/builder.rs) ----------------------------------
GameBuilder_default == Game_default

Builder_timeout(g, for_white, for_black) == [g EXCEPT !.clock = Clock(for_white, for_black)]

Builder_metadata(g, metadata) == [g EXCEPT !.metadata = metadata]

Builder_moves(g, moves) == [g EXCEPT !.moves = moves]

Builder_options(g, options) == [g EXCEPT !.options = options]

\* ------------------------------------------------------------------------
\* Games: a starting board and the moves the players try on it
\* ------------------------------------------------------------------------
MaxPly == 14

build(ps) == enable_castling(builder_pieces(BoardBuilder_default, ps))

\* moves that are tried in every game
CommonMoves == { Resign, KingSideCastle, QueenSideCastle }

Games ==
    << \* 1: en passant on either side of the white e-pawn
       [board |-> Board_default,
        moves |-> { MovePiece(position.E2, position.E4), MovePiece(position.H7, position.H5), MovePiece(position.E4, position.E5),
                    MovePiece(position.D7, position.D5), MovePiece(position.F7, position.F5), MovePiece(position.E5, position.D6),
                    MovePiece(position.E5, position.F6), MovePiece(position.E5, position.E6), MovePiece(position.G7, position.F6),
                    MovePiece(position.E5, position.A1), MovePiece(position.E5, position.E8), MovePiece(position.E5, Position(8, 4)),
                    MovePiece(position.E2, position.E5), MovePiece(position.A1, position.A3), MovePiece(position.E1, position.E2),
                    MovePiece(position.B1, position.B3), MovePiece(position.E7, position.E6), MovePiece(position.E3, position.E4) }],
       \* 2: white clears the queenside while a black bishop takes on h6
       [board |-> Board_default,
        moves |-> { MovePiece(position.D2, position.D4), MovePiece(position.G7, position.G6), MovePiece(position.C1, position.H6),
                    MovePiece(position.F8, position.H6), MovePiece(position.B1, position.C3), MovePiece(position.A7, position.A6),
                    MovePiece(position.D1, position.D3), MovePiece(position.D7, position.D5), MovePiece(position.C1, position.D1),
                    MovePiece(position.H6, position.C1) }],
       \* 3: fool's mate
       [board |-> Board_default,
        moves |-> { MovePiece(position.F2, position.F3), MovePiece(position.E7, position.E5), MovePiece(position.G2, position.G4),
                    MovePiece(position.D8, position.H4), MovePiece(position.E2, position.E3), MovePiece(position.D8, position.D1) }],
       \* 4: giuoco piano, both sides castle kingside
       [board |-> Board_default,
        moves |-> { MovePiece(position.E2, position.E4), MovePiece(position.E7, position.E5), MovePiece(position.G1, position.F3),
                    MovePiece(position.B8, position.C6), MovePiece(position.F1, position.C4), MovePiece(position.F8, position.C5),
                    MovePiece(position.G8, position.F6), MovePiece(position.E1, position.E2), MovePiece(position.H1, position.G1),
                    MovePiece(position.E2, position.E1) }],
       \* 5: checkmate in one (test play_move)
       [board |-> build(<<King(BLACK, position.G8), Queen(WHITE, position.H6), King(WHITE, position.F6)>>),
        moves |-> { MovePiece(position.H6, position.G7), MovePiece(position.H6, position.H7), MovePiece(position.G8, position.H8),
                    MovePiece(position.H6, position.H4), MovePiece(position.F6, position.G7) }],
       \* 6: stalemate in one (test play_move)
       [board |-> build(<<King(BLACK, position.H8), Queen(WHITE, position.F7), King(WHITE, position.E7)>>),
        moves |-> { MovePiece(position.E7, position.F8), MovePiece(position.F7, position.G6), MovePiece(position.H8, position.G8),
                    MovePiece(position.F7, position.G7) }],
       \* 7: promotion by advance or by capture (tests play_move, promote)
       [board |-> build(<<Pawn(WHITE, position.B7), King(WHITE, position.E1), King(BLACK, position.H8),
                          Rook(BLACK, position.A8)>>),
        moves |-> { MovePiece(position.B7, position.B8), MovePiece(position.B7, position.A8), MovePiece(position.E1, position.E2),
                    MovePiece(position.H8, position.G7), MovePiece(position.A8, position.A1), MovePiece(position.B8, position.B7),
                    MovePiece(position.B8, position.H8), MovePiece(position.B8, position.D6) }],
       \* 8: a capture recorded and forgotten (test taken_piece)
       [board |-> build(<<Pawn(WHITE, position.D4), Queen(BLACK, position.E5), King(WHITE, position.E1),
                          King(BLACK, position.H8)>>),
        moves |-> { MovePiece(position.D4, position.E5), MovePiece(position.H8, position.G7), MovePiece(position.D4, position.D5),
                    MovePiece(position.E5, position.E1), MovePiece(position.E1, position.D1) }],
       \* 9: a capture that leaves bare kings
       [board |-> build(<<King(WHITE, position.E1), Knight(BLACK, position.D2), King(BLACK, position.E8)>>),
        moves |-> { MovePiece(position.E1, position.D2), MovePiece(position.E1, position.E2), MovePiece(position.D2, position.F3),
                    MovePiece(position.E8, position.E7) }],
       \* 10: a pawn reaching the last rank while the enemy king has no move
       [board |-> build(<<King(WHITE, position.F7), Pawn(WHITE, position.G6), Pawn(WHITE, position.A7),
                          King(BLACK, position.H8)>>),
        moves |-> { MovePiece(position.A7, position.A8), MovePiece(position.G6, position.G7), MovePiece(position.F7, position.F8),
                    MovePiece(position.H8, position.H7) }],
       \* 11: a knight landing on the en-passant square
       [board |-> Board_default,
        moves |-> { MovePiece(position.B1, position.C3), MovePiece(position.A7, position.A6), MovePiece(position.C3, position.B5),
                    MovePiece(position.D7, position.D5), MovePiece(position.B5, position.D6), MovePiece(position.E7, position.D6) }],
       \* 12: the rook on h1 is taken by a bishop and the rook from a1 takes
       \* its place
       [board |-> Board_default,
        moves |-> { MovePiece(position.A2, position.A4), MovePiece(position.A1, position.A3), MovePiece(position.H2, position.H4),
                    MovePiece(position.A3, position.H3), MovePiece(position.F1, position.G2), MovePiece(position.H3, position.H1),
                    MovePiece(position.G1, position.F3),
                    MovePiece(position.B7, position.B6), MovePiece(position.C8, position.B7), MovePiece(position.B7, position.G2),
                    MovePiece(position.G2, position.H1), MovePiece(position.B6, position.B5), MovePiece(position.B5, position.B4),
                    MovePiece(position.B4, position.B3) }],
       \* 13: the horde variant
       [board |-> Board_horde,
        moves |-> { MovePiece(position.B5, position.B6), MovePiece(position.E4, position.E5), MovePiece(position.C5, position.D6),
                    MovePiece(position.A1, position.A2), MovePiece(position.A7, position.B6), MovePiece(position.D7, position.D5),
                    MovePiece(position.G8, position.F6), MovePiece(position.F6, position.E4) }],
       \* 14: Dunsany's chess, Black moves first
       [board |-> Board_dunsany,
        moves |-> { MovePiece(position.E7, position.E5), MovePiece(position.E5, position.D4), MovePiece(position.G8, position.F6),
                    MovePiece(position.F6, position.E4), MovePiece(position.A4, position.A5), MovePiece(position.C3, position.D4),
                    MovePiece(position.D3, position.E4), MovePiece(position.E1, position.E2) }],
       \* 15: the empty board
       [board |-> Board_empty,
        moves |-> { MovePiece(position.E2, position.E4), MovePiece(position.E7, position.E5) }],
       \* 16: a board whose builder was told that Black moves first
       [board |-> enable_castling(player_moving(
                      builder_pieces(BoardBuilder_default,
                                     <<King(WHITE, position.E1), Pawn(WHITE, position.A2),
                                       King(BLACK, position.E8), Pawn(BLACK, position.A7)>>), BLACK)),
        moves |-> { MovePiece(position.E8, position.E7), MovePiece(position.E1, position.E2),
                    MovePiece(position.A7, position.A5), MovePiece(position.A2, position.A4) }] >>

\* the games that start from Board::default()
DefaultGames == {1, 2, 3, 4, 11, 12}

\* the games that start from a board made by a constructor of Board
ConstructorGames == DefaultGames \cup {13, 14, 15}

\* the games whose board was built with player_moving(BLACK)
BlackFirstGames == {16}

VARIABLES
    game,      \* index of the game being played
    board,     \* the board the caller holds and calls play_move / promote on
    result,    \* the value the last call returned (or Panic), until handled
    call,      \* the last call: the move or promotion passed
    ply,       \* number of returned boards the caller has taken over
    touched,   \* the squares a piece has left or reached since the game began
    answer,    \* the value a query on the board returned, if one was made
    session    \* the Game the caller holds: board, clocks, history, result

vars == <<game, board, result, call, ply, touched, answer, session>>

NoCall == [op |-> "none", move |-> Resign, promotion |-> "Queen"]

\* the squares the pieces relocated by move m of `color` leave and reach
MovedSquares(m, color) ==
    LET back(col) == Position(king_pos(color).row, col)
    IN  CASE m.type = "Piece"           -> {m.from, m.to}
          [] m.type = "KingSideCastle"  -> {back(4), back(5), back(6), back(7)}
          [] m.type = "QueenSideCastle" -> {back(0), back(2), back(3), back(4)}
          [] m.type = "Resign"          -> {}

Init ==
    /\ session = Game_default
    /\ game \in 1..Len(Games)
    /\ board = Games[game].board
    /\ result = NoResult
    /\ call = NoCall
    /\ ply = 0
    /\ touched = {}
    /\ answer = None

\* board.play_move(m)
PlayMove ==
    /\ result = NoResult
    /\ \E m \in Games[game].moves \cup CommonMoves :
          /\ result' = play_move(board, m)
          /\ call' = [op |-> "play_move", move |-> m, promotion |-> "Queen"]
    /\ UNCHANGED <<game, board, ply, touched, answer, session>>

\* board.promote(kind)
PromoteCall ==
    /\ result = NoResult
    /\ \E k \in Promotion :
          /\ result' = promote(board, k)
          /\ call' = [op |-> "promote", move |-> Resign, promotion |-> k]
    /\ UNCHANGED <<game, board, ply, touched, answer, session>>

\* the caller carries on with the board it was handed back
TakeBoard ==
    /\ result.kind \in {"Continuing", "Promote", "Board"}
    /\ ply < MaxPly
    /\ board' = unwrap(result.board)
    /\ result' = NoResult
    /\ call' = NoCall
    /\ ply' = ply + 1
    /\ touched' = IF call.op = "play_move"
                  THEN touched \cup MovedSquares(call.move, get_turn(board))
                  ELSE touched
    /\ UNCHANGED <<game, answer, session>>

\* the caller drops a rejected move and may try another one
Retry ==
    /\ result.kind = "IllegalMove"
    /\ result' = NoResult
    /\ call' = NoCall
    /\ UNCHANGED <<game, board, ply, touched, answer, session>>

Next == PlayMove \/ PromoteCall \/ TakeBoard \/ Retry

Spec == Init /\ [][Next]_vars

\* ------------------------------------------------------------------------
\* Queries: the predicates of Board applied to boards of chosen material
\* ------------------------------------------------------------------------
\* the most bishops, and the most knights, given to one side
MaxMinor == 2

\* the squares on which the pieces of a side are put, by kind
HomeSquares(color) ==
    IF color = WHITE
    THEN [King   |-> <<position.E1>>, Queen |-> <<position.D1>>, Rook |-> <<position.A1>>,
          Bishop |-> <<position.C1, position.F1, position.C3, position.F3>>,
          Knight |-> <<position.B1, position.G1, position.B3, position.G3>>,
          Pawn   |-> <<position.E2>>]
    ELSE [King   |-> <<position.E8>>, Queen |-> <<position.D8>>, Rook |-> <<position.A8>>,
          Bishop |-> <<position.C8, position.F8, position.C6, position.F6>>,
          Knight |-> <<position.B8, position.G8, position.B6, position.G6>>,
          Pawn   |-> <<position.E7>>]

\* the pieces of `color` for a count of each kind
Material(color, n) ==
    LET of(kind) == [k \in 1..n[kind] |-> Piece(kind, color, HomeSquares(color)[kind][k])]
    IN  of("King") \o of("Queen") \o of("Rook") \o of("Bishop") \o of("Knight") \o of("Pawn")

\* every count of pieces a side is given
Compositions ==
    [King : 0..1, Queen : 0..1, Rook : 0..1, Bishop : 0..MaxMinor, Knight : 0..MaxMinor, Pawn : 0..1]

\* no piece, or the king alone
Bare ==
    { [King |-> k, Queen |-> 0, Rook |-> 0, Bishop |-> 0, Knight |-> 0, Pawn |-> 0] : k \in 0..1 }

\* one side of any composition against a bare side, either side to move
MaterialBoards ==
    LET made(w, bl) == builder_pieces(builder_pieces(BoardBuilder_default, Material(WHITE, w)),
                                      Material(BLACK, bl))
        white_first == { made(w, bl) : w \in Compositions, bl \in Bare }
                       \cup { made(w, bl) : w \in Bare, bl \in Compositions }
    IN  white_first \cup { change_turn(b) : b \in white_first }

\* boards on which the side to move is stalemated, mated, or in check with
\* a way out
EndingBoards ==
    { change_turn(build(<<King(WHITE, position.G3), Knight(WHITE, position.H3), King(BLACK, position.H1)>>)),
      change_turn(build(<<King(BLACK, position.G8), Queen(WHITE, position.D8), Rook(WHITE, position.B7),
                          King(WHITE, position.C3)>>)),
      change_turn(build(<<King(BLACK, position.H8), Queen(WHITE, position.G6), King(WHITE, position.F7)>>)),
      change_turn(build(<<King(BLACK, position.E8), Queen(WHITE, position.E2), King(WHITE, position.E1)>>)),
      build(<<King(WHITE, position.A1), Queen(BLACK, position.B3), King(BLACK, position.C2)>>),
      build(<<King(WHITE, position.A1), Rook(BLACK, position.H1), Rook(BLACK, position.G2),
              King(BLACK, position.H8)>>),
      Board_default, Board_horde, Board_dunsany }

QueryBoards == MaterialBoards \cup EndingBoards

Answer(query, color, value) == Some([query |-> query, color |-> color, value |-> value])

QueryInit ==
    /\ session = Game_default
    /\ game = 0
    /\ board \in QueryBoards
    /\ result = NoResult
    /\ call = NoCall
    /\ ply = 0
    /\ touched = {}
    /\ answer = None

\* board.has_sufficient_material(color)
AskSufficientMaterial ==
    /\ \E color \in {WHITE, BLACK} :
          answer' = Answer("has_sufficient_material", color, has_sufficient_material(board, color))
    /\ UNCHANGED <<game, board, result, call, ply, touched, session>>

\* board.has_insufficient_material(color)
AskInsufficientMaterial ==
    /\ \E color \in {WHITE, BLACK} :
          answer' = Answer("has_insufficient_material", color, has_insufficient_material(board, color))
    /\ UNCHANGED <<game, board, result, call, ply, touched, session>>

\* board.is_stalemate()
AskStalemate ==
    /\ answer' = Answer("is_stalemate", get_turn(board), is_stalemate(board))
    /\ UNCHANGED <<game, board, result, call, ply, touched, session>>

\* board.is_checkmate()
AskCheckmate ==
    /\ answer' = Answer("is_checkmate", get_turn(board), is_checkmate(board))
    /\ UNCHANGED <<game, board, result, call, ply, touched, session>>

QueryNext ==
    \/ AskSufficientMaterial
    \/ AskInsufficientMaterial
    \/ AskStalemate
    \/ AskCheckmate

QuerySpec == QueryInit /\ [][QueryNext]_vars

\* ------------------------------------------------------------------------
\* Search: minimax and the choice of the best move on chosen boards
\* ------------------------------------------------------------------------
\* the deepest search asked for, in plies below the board searched
MaxDepth == 2

SearchInit ==
    /\ session = Game_default
    /\ game = 0
    /\ board \in EndingBoards
    /\ result = NoResult
    /\ call = NoCall
    /\ ply = 0
    /\ touched = {}
    /\ answer = None

\* board.minimax(depth, -1000000.0, 1000000.0, is_maximizing, color)
AskMinimax ==
    /\ answer = None
    /\ \E depth \in 0..MaxDepth, is_maximizing \in BOOLEAN, color \in {WHITE, BLACK} :
          answer' = Answer("minimax", color,
                           [depth |-> depth, is_maximizing |-> is_maximizing,
                            rating |-> minimax(board, depth, -2000000, 2000000, is_maximizing, color)])
    /\ UNCHANGED <<game, board, result, call, ply, touched, session>>

\* board.rate_legal_moves(depth)
AskRateLegalMoves ==
    /\ answer = None
    /\ \E depth \in 0..(MaxDepth - 1) :
          answer' = Answer("rate_legal_moves", get_turn(board),
                           [depth |-> depth, rated |-> rate_legal_moves(board, depth)])
    /\ UNCHANGED <<game, board, result, call, ply, touched, session>>

\* board.get_best_next_move(depth)
AskBestNextMove ==
    /\ answer = None
    /\ \E depth \in 0..(MaxDepth - 1) :
          answer' = Answer("get_best_next_move", get_turn(board),
                           [depth |-> depth, rated |-> get_best_next_move(board, depth)])
    /\ UNCHANGED <<game, board, result, call, ply, touched, session>>

\* A call in progress is kept as the answer "minimax_call": the search
\* stands in a call of minimax on `node`, a board produced by a move of
\* `mover`; `color` of the answer is the side whose legal moves this call
\* enumerates (the node's own turn).
\* rate_legal_moves(depth): every legal move of the side to move is applied
\* and the board it gives is handed to minimax(depth, .., false, turn)
EnterMinimax ==
    /\ answer = None
    /\ \E legal_moves \in {get_legal_moves(board, get_turn(board))} :
       \E depth \in 1..MaxDepth, k \in 1..Len(legal_moves) :
          \E node \in {apply_move(board, legal_moves[k])} :
             answer' = Answer("minimax_call", get_turn(node),
                              [node |-> node, depth |-> depth, is_maximizing |-> FALSE,
                               mover |-> get_turn(board)])
    /\ UNCHANGED <<game, board, result, call, ply, touched, session>>

\* the loop of minimax: a legal move of the node's turn is applied and the
\* search descends with depth - 1 and the flag flipped (the first move is
\* always descended into, a later one unless the window has closed)
Descend ==
    /\ answer # None
    /\ answer[1].query = "minimax_call"
    /\ answer[1].value.depth > 0
    /\ \E node \in {answer[1].value.node} :
       \E legal_moves \in {get_legal_moves(node, get_turn(node))} :
       \E k \in 1..Len(legal_moves) :
          \E next \in {apply_move(node, legal_moves[k])} :
             answer' = Answer("minimax_call", get_turn(next),
                              [node |-> next, depth |-> answer[1].value.depth - 1,
                               is_maximizing |-> ~answer[1].value.is_maximizing,
                               mover |-> get_turn(node)])
    /\ UNCHANGED <<game, board, result, call, ply, touched, session>>

\* the caller lets go of the value it received
Drop ==
    /\ answer # None
    /\ answer' = None
    /\ UNCHANGED <<game, board, result, call, ply, touched, session>>

SearchNext ==
    \/ AskMinimax
    \/ AskRateLegalMoves
    \/ AskBestNextMove
    \/ EnterMinimax
    \/ Descend
    \/ Drop

SearchSpec == SearchInit /\ [][SearchNext]_vars

\* ------------------------------------------------------------------------
\* Positions: printing, parsing and the paths between two squares
\* ------------------------------------------------------------------------
\* the longest text handed to from_str, in chars
MaxText == 3

PositionInit ==
    /\ session = Game_default
    /\ game = 0
    /\ board = Board_empty
    /\ result = NoResult
    /\ call = NoCall
    /\ ply = 0
    /\ touched = {}
    /\ answer = None

\* p.to_string(), for the squares of the board and the ring around it
AskToString ==
    /\ answer = None
    /\ \E row \in -1..8, col \in -1..8 :
          answer' = Answer("to_string", None,
                           [pos |-> Position(row, col), text |-> to_string(Position(row, col))])
    /\ UNCHANGED <<game, board, result, call, ply, touched, session>>

\* Position::from_str(text), for the texts of up to MaxText chars
AskFromStr ==
    /\ answer = None
    /\ LET Chars == {"a", "h", "A", "H", "i", "J", "0", "1", "8", "9", "U+00E9"}
       IN  \E text \in UNION {[1..n -> Chars] : n \in 0..MaxText} :
              answer' = Answer("from_str", None, [text |-> text, parsed |-> from_str(text)])
    /\ UNCHANGED <<game, board, result, call, ply, touched, session>>

\* a.diagonals_to(b)
AskDiagonalsTo ==
    /\ answer = None
    /\ \E a \in {index_pos(i) : i \in 0..63}, b \in {index_pos(i) : i \in 0..63} :
          answer' = Answer("diagonals_to", None, [from |-> a, to |-> b, path |-> diagonals_to(a, b)])
    /\ UNCHANGED <<game, board, result, call, ply, touched, session>>

\* a.orthogonals_to(b)
AskOrthogonalsTo ==
    /\ answer = None
    /\ \E a \in {index_pos(i) : i \in 0..63}, b \in {index_pos(i) : i \in 0..63} :
          answer' = Answer("orthogonals_to", None, [from |-> a, to |-> b, path |-> orthogonals_to(a, b)])
    /\ UNCHANGED <<game, board, result, call, ply, touched, session>>

PositionNext ==
    \/ AskToString
    \/ AskFromStr
    \/ AskDiagonalsTo
    \/ AskOrthogonalsTo
    \/ Drop

PositionSpec == PositionInit /\ [][PositionNext]_vars

\* ------------------------------------------------------------------------
\* Sessions: a Game as built, and the moves and thinking times tried on it
\* ------------------------------------------------------------------------
\* the longest history a session is played to, in half-moves
MaxHistory == 10

\* the history the sessions with a choice of knight moves are played to
MaxKnightHistory == 6

\* the largest thinking time passed with a move, on a clock of at most 2
MaxTime == 3

knight_out == MovePiece(position.G1, position.F3)

knight_reply == MovePiece(position.G8, position.F6)

\* a history as GameBuilder::moves takes it: the moves of `ms`, White first
history(ms) ==
    [i \in 1..Len(ms) |->
        GameMove(ms[i], IF i % 2 = 1 THEN WHITE ELSE BLACK, (i - 1) \div 2 + 1, 0, None, None)]

\* the knights' turn (g1f3, g8f6), `turns` times over
knight_turns(turns) ==
    [i \in 1..(2 * turns) |-> IF i % 2 = 1 THEN knight_out ELSE knight_reply]

KnightMoves ==
    { knight_out, knight_reply, MovePiece(position.F3, position.G1),
      MovePiece(position.F6, position.G8), Resign }

Sessions ==
    << \* 1: Game::default(), played to the fool's mate
       [start |-> Game_default,
        moves |-> { MovePiece(position.F2, position.F3), MovePiece(position.E7, position.E5),
                    MovePiece(position.G2, position.G4), MovePiece(position.D8, position.H4),
                    MovePiece(position.E2, position.E5), Resign },
        times |-> {0}, limit |-> 5],
       \* 2: GameBuilder::default().timeout(2, 1).build(), played against the clock
       [start |-> Builder_timeout(GameBuilder_default, 2, 1),
        moves |-> { MovePiece(position.E2, position.E4), MovePiece(position.E7, position.E5),
                    MovePiece(position.E2, position.E5) },
        times |-> 0..MaxTime, limit |-> 3],
       \* 3: Game::default(), the knights going out and back
       [start |-> Game_default, moves |-> KnightMoves, times |-> {0}, limit |-> MaxKnightHistory],
       \* 4: the same with both repetition options off and the result in progress
       [start |-> Builder_metadata(
                    Builder_options(GameBuilder_default,
                        [threefold_repetition |-> FALSE, fivefold_repetition |-> FALSE]),
                    [result |-> "InProgress"]),
        moves |-> KnightMoves, times |-> {0}, limit |-> MaxKnightHistory],
       \* 5: a history of two knight turns loaded on the starting board
       [start |-> Builder_moves(GameBuilder_default, history(knight_turns(2))),
        moves |-> KnightMoves, times |-> {0}, limit |-> MaxKnightHistory],
       \* 6: a history of four knight turns, the fivefold option alone
       [start |-> Builder_options(
                    Builder_moves(GameBuilder_default, history(knight_turns(4))),
                    [threefold_repetition |-> FALSE, fivefold_repetition |-> TRUE]),
        moves |-> { knight_out, knight_reply }, times |-> {0}, limit |-> MaxHistory],
       \* 7: Game::default(), a player resigning move after move
       [start |-> Game_default, moves |-> { knight_out, Resign }, times |-> {0},
        limit |-> MaxHistory] >>

GameInit ==
    /\ game \in 1..Len(Sessions)
    /\ session = Sessions[game].start
    /\ board = Board_default
    /\ result = NoResult
    /\ call = NoCall
    /\ ply = 0
    /\ touched = {}
    /\ answer = None

\* the call returns: the caller holds the game as left and the value returned
Return(query, player, m, time, returned) ==
    /\ session' = returned.game
    /\ answer' = Answer(query, player, [move |-> m, time |-> time, result |-> returned.result])

\* game.play_move(m, time)
GamePlayMove ==
    /\ Len(session.moves) < Sessions[game].limit
    /\ \E m \in Sessions[game].moves, time \in Sessions[game].times :
          Return("Game.play_move", get_turn(session.board), m, time, Game_play_move(session, m, time))
    /\ UNCHANGED <<game, board, result, call, ply, touched>>

\* game.resign()
GameResign ==
    /\ Return("Game.resign", get_turn(session.board), Resign, 0, Game_resign(session))
    /\ UNCHANGED <<game, board, result, call, ply, touched>>

\* game.draw()
GameDraw ==
    /\ Return("Game.draw", get_turn(session.board), Resign, 0, Game_draw(session))
    /\ UNCHANGED <<game, board, result, call, ply, touched>>

GameNext == GamePlayMove \/ GameResign \/ GameDraw

GameSpec == GameInit /\ [][GameNext]_vars

\* ------------------------------------------------------------------------
\* Properties
\* ------------------------------------------------------------------------
Range(s) == {s[k] : k \in 1..Len(s)}

\* a play_move call has just returned (or panicked) and is not yet handled
Played == call.op = "play_move"

\* a promote call has just returned (or panicked)
Promoted == call.op = "promote"

\* C1: on every board reached from Board::default(), no move approved by
\* is_legal_move for the side to move (a listed piece move or a castle)
\* leaves the mover's own king in check once applied.
C1_LegalMoveNeverSelfCheck ==
    (game \in DefaultGames /\ result = NoResult) =>
        \A m \in Range(get_legal_moves(board, get_turn(board)))
                 \cup {KingSideCastle, QueenSideCastle} :
            is_legal_move(board, m, get_turn(board)) =>
                ~is_in_check(apply_move(board, m), get_turn(board))

\* play_move accepts a queenside castle that puts the castling king on an
\* attacked square
C1_Witness ==
    /\ game \in DefaultGames
    /\ Played
    /\ call.move = QueenSideCastle
    /\ result.kind = "Continuing"
    /\ is_in_check(unwrap(result.board), get_turn(board))

\* the chess movement rule of the piece standing on `from`, stated
\* independently of the engine: where may it go on board b?
RuleBetween(from, to) ==
    LET dr == IF to.row > from.row THEN 1 ELSE IF to.row < from.row THEN -1 ELSE 0
        dc == IF to.col > from.col THEN 1 ELSE IF to.col < from.col THEN -1 ELSE 0
        n == IF abs(to.row - from.row) > abs(to.col - from.col)
             THEN abs(to.row - from.row) ELSE abs(to.col - from.col)
    IN  {Position(from.row + k * dr, from.col + k * dc) : k \in 1..(n - 1)}

RuleSameLine(from, to) == from.row = to.row \/ from.col = to.col

RuleSameDiagonal(from, to) == abs(from.row - to.row) = abs(from.col - to.col)

RuleClear(b, from, to) == \A p \in RuleBetween(from, to) : b.squares[square_index(p)] = None

RuleAllows(b, from, to) ==
    /\ from.row \in 0..7 /\ from.col \in 0..7
    /\ to.row \in 0..7 /\ to.col \in 0..7
    /\ from # to
    /\ b.squares[square_index(from)] # None
    /\ LET piece == b.squares[square_index(from)][1]
           target == b.squares[square_index(to)]
           dir == IF piece.color = WHITE THEN 1 ELSE -1
           home == IF piece.color = WHITE THEN 1 ELSE 6
       IN  /\ piece.color = b.turn
           /\ target = None \/ target[1].color # piece.color
           /\ CASE piece.kind = "King" ->
                     abs(from.row - to.row) <= 1 /\ abs(from.col - to.col) <= 1
                [] piece.kind = "Knight" ->
                     {abs(from.row - to.row), abs(from.col - to.col)} = {1, 2}
                [] piece.kind = "Rook" ->
                     RuleSameLine(from, to) /\ RuleClear(b, from, to)
                [] piece.kind = "Bishop" ->
                     RuleSameDiagonal(from, to) /\ RuleClear(b, from, to)
                [] piece.kind = "Queen" ->
                     /\ RuleSameLine(from, to) \/ RuleSameDiagonal(from, to)
                     /\ RuleClear(b, from, to)
                [] piece.kind = "Pawn" ->
                     \/ /\ to = Position(from.row + dir, from.col)
                        /\ target = None
                     \/ /\ from.row = home
                        /\ to = Position(from.row + 2 * dir, from.col)
                        /\ target = None
                        /\ b.squares[square_index(Position(from.row + dir, from.col))] = None
                     \/ /\ to.row = from.row + dir
                        /\ abs(to.col - from.col) = 1
                        /\ target # None \/ b.en_passant = Some(to)

\* C2: with no promotion pending, play_move(Move::Piece(from, to)) returns
\* IllegalMove unless the piece on `from` belongs to the side to move and
\* `to` is a destination the movement rule of that piece allows.
C2_OnlyRuleMovesAccepted ==
    (/\ Played
     /\ call.move.type = "Piece"
     /\ is_none(board.promotion)
     /\ result.kind # "IllegalMove") => RuleAllows(board, call.move.from, call.move.to)

\* play_move accepts a pawn move from e5 to a1, onto the mover's own rook
C2_Witness ==
    /\ Played
    /\ call.move = MovePiece(position.E5, position.A1)
    /\ get_piece(board, position.E5) = Some(Pawn(WHITE, position.E5))
    /\ get_piece(board, position.A1) = Some(Rook(WHITE, position.A1))
    /\ result.kind = "Continuing"

\* play_move took the move: it neither panicked nor rejected it, and the
\* move was not a resignation
Accepted ==
    /\ Played
    /\ call.move # Resign
    /\ result.kind \notin {"Panic", "IllegalMove"}

\* the squares on which a pawn of `color` stands on its last rank
LastRankPawns(b, color) ==
    {p \in {Position(IF color = WHITE THEN 7 ELSE 0, c) : c \in 0..7} :
        b.squares[square_index(p)] = Some(Pawn(color, p))}

\* C3: for an accepted non-resign move by mover c, with b' the board after
\* applying it: Victory(c) if the opponent is in check in b' and has no legal
\* move; otherwise Stalemate if the opponent is not in check and has no legal
\* move, or both sides have insufficient material; otherwise Promote(b' with
\* the promotion square set, square) if a pawn of c stands on its last rank;
\* otherwise Continuing(b' with the turn flipped).
C3_PlayMoveOutcome ==
    Accepted =>
        LET c == get_turn(board)
            opp == Not(c)
            after == apply_move(board, call.move)
            nomoves == get_legal_moves(after, opp) = <<>>
            incheck == is_in_check(after, opp)
            bare == /\ has_insufficient_material(after, WHITE)
                    /\ has_insufficient_material(after, BLACK)
            pawns == LastRankPawns(after, c)
        IN  IF incheck /\ nomoves THEN result = Victory(c)
            ELSE IF (~incheck /\ nomoves) \/ bare THEN result = Stalemate
            ELSE IF pawns # {}
                 THEN \E p \in pawns :
                        result = Promote([after EXCEPT !.promotion = Some(p)], p)
                 ELSE result = Continuing([after EXCEPT !.turn = opp])

\* a move that both ends the game and brings a pawn of the mover to its
\* last rank: the game end is reported, not the promotion
C3_Witness ==
    /\ Accepted
    /\ result = Stalemate
    /\ LastRankPawns(apply_move(board, call.move), get_turn(board)) # {}

\* C4: along a chain of calls on the returned boards the side to move flips
\* exactly once per completed move: the board of a Continuing has the
\* opponent of the mover to move, the board of a Promote still has the mover
\* to move, and the board returned by the following promote() has the
\* opponent to move.
C4_TurnAlternation ==
    [][ply' = ply + 1 =>
          get_turn(board') = IF result.kind = "Promote"
                             THEN get_turn(board)
                             ELSE Not(get_turn(board))]_vars

\* the caller has taken over the board returned by promote() after a Promote
C4_Witness ==
    /\ Promoted
    /\ result.kind = "Board"
    /\ get_turn(unwrap(result.board)) = Not(get_turn(board))

\* C5: play_move on a board with a pending promotion panics for every move,
\* Resign included.
C5_PlayMovePanicsOnPendingPromotion ==
    (Played /\ is_some(board.promotion)) => result = Panic

C5_Witness ==
    /\ Played
    /\ is_some(board.promotion)
    /\ call.move = Resign
    /\ result = Panic

\* C6: promote on a board with no pending promotion panics.
C6_PromotePanicsWithoutPending ==
    (Promoted /\ is_none(board.promotion)) => result = Panic

C6_Witness ==
    /\ Promoted
    /\ is_none(board.promotion)
    /\ result = Panic

\* C7: promote(kind) on a board with pending promotion square p returns a
\* board in which p holds a piece of the chosen kind and of the colour that
\* was to move, no promotion is pending and the opponent is to move; every
\* other square, both castling rights, the en-passant square and the taken
\* piece are as before.
C7_PromoteFrame ==
    (Promoted /\ is_some(board.promotion)) =>
        /\ result.kind = "Board"
        /\ LET p == unwrap(board.promotion)
               r == unwrap(result.board)
           IN  /\ r.squares[square_index(p)] = Some(Piece(call.promotion, get_turn(board), p))
               /\ call.promotion \in {"Queen", "Rook", "Bishop", "Knight"}
               /\ r.promotion = None
               /\ r.turn = Not(get_turn(board))
               /\ \A i \in 1..64 : i # square_index(p) => r.squares[i] = board.squares[i]
               /\ r.white_castling_rights = board.white_castling_rights
               /\ r.black_castling_rights = board.black_castling_rights
               /\ r.en_passant = board.en_passant
               /\ r.taken_piece = board.taken_piece

\* an under-promotion of a pawn that reached the last rank by a capture
C7_Witness ==
    /\ Promoted
    /\ is_some(board.promotion)
    /\ is_some(board.taken_piece)
    /\ call.promotion = "Knight"
    /\ result.kind = "Board"

\* C8: play_move(Resign) on a board with no pending promotion returns
\* Victory(opponent of the side to move), whatever the position.
C8_ResignGivesOpponentVictory ==
    (Played /\ call.move = Resign /\ is_none(board.promotion)) =>
        result = Victory(Not(get_turn(board)))

\* the side that resigns is not in check and has a mating move at hand
C8_Witness ==
    /\ Played
    /\ call.move = Resign
    /\ is_none(board.promotion)
    /\ ~is_in_check(board, get_turn(board))
    /\ \E m \in Games[game].moves : play_move(board, m) = Victory(get_turn(board))
    /\ result = Victory(Not(get_turn(board)))

\* C9: a play_move call leaves the board it is called on as it was, and an
\* IllegalMove result carries exactly the move that was passed.
C9_PlayMoveLeavesReceiver ==
    [][call'.op = "play_move" =>
          /\ board' = board
          /\ result'.kind = "IllegalMove" => result' = IllegalMove(call'.move)]_vars

C9_Witness ==
    /\ Played
    /\ call.move.type = "Piece"
    /\ result = IllegalMove(call.move)

\* the move advances a pawn of the side to move two squares up its file from
\* its starting rank
IsDoublePush(b, m) ==
    /\ m.type = "Piece"
    /\ is_on_board(m.from)
    /\ get_piece(b, m.from) = Some(Pawn(get_turn(b), m.from))
    /\ m.from.row = (IF get_turn(b) = WHITE THEN 1 ELSE 6)
    /\ m.to = Position(m.from.row + (IF get_turn(b) = WHITE THEN 2 ELSE -2), m.from.col)

\* the square a double-pushed pawn passed over
PassedOver(m) == Position((m.from.row + m.to.row) \div 2, m.from.col)

\* the pawns of `color` standing next to square p on its rank
PawnsBeside(b, p, color) ==
    {q \in {next_left(p), next_right(p)} :
        is_on_board(q) /\ get_piece(b, q) = Some(Pawn(color, q))}

\* the en-passant captures onto the empty square s listed for either side
EnPassantOffers(b, s) ==
    {m \in Range(get_legal_moves(b, WHITE)) \cup Range(get_legal_moves(b, BLACK)) :
        /\ m.to = s
        /\ has_no_piece(b, s)
        /\ is_pawn(unwrap(get_piece(b, m.from)))
        /\ m.from.col # s.col}

\* C10: the board returned by play_move (Continuing or Promote) has
\* en_passant = Some(s) exactly when the move played was a pawn double push
\* from its starting rank, and then s is the square passed over; every enemy
\* pawn beside the pushed pawn is then offered the capture onto s (unless the
\* capture would leave its own king in check), and the board returned one
\* ply later offers no en-passant capture onto s any more.
C10_EnPassantWindow ==
    (Played /\ result.kind \in {"Continuing", "Promote"}) =>
        LET r == unwrap(result.board)
            m == call.move
        IN  /\ is_some(get_en_passant(r)) <=> IsDoublePush(board, m)
            /\ IsDoublePush(board, m) =>
                 /\ get_en_passant(r) = Some(PassedOver(m))
                 /\ \A q \in PawnsBeside(r, m.to, get_turn(r)) :
                      LET capture == MovePiece(q, PassedOver(m))
                      IN  \/ capture \in Range(get_legal_moves(r, get_turn(r)))
                          \/ is_in_check(apply_move(r, capture), get_turn(r))
            /\ is_some(get_en_passant(board)) =>
                 /\ get_en_passant(r) # get_en_passant(board)
                 /\ EnPassantOffers(r, unwrap(get_en_passant(board))) = {}

\* an en-passant capture was on offer, another move was played, and the
\* returned board is checked for the offer
C10_Witness ==
    /\ Played
    /\ result.kind = "Continuing"
    /\ is_some(get_en_passant(board))
    /\ EnPassantOffers(board, unwrap(get_en_passant(board))) # {}
    /\ call.move \notin EnPassantOffers(board, unwrap(get_en_passant(board)))
    /\ has_no_piece(unwrap(result.board), unwrap(get_en_passant(board)))

\* the squares of board r differ from those of board b at most on `changed`
SquaresKeptExcept(b, r, changed) ==
    \A i \in 1..64 : index_pos(i - 1) \notin changed => r.squares[i] = b.squares[i]

\* play_move accepted a piece move onto the en-passant square of the board
\* and handed a board back
OntoEnPassant ==
    /\ Played
    /\ result.kind \in {"Continuing", "Promote"}
    /\ call.move.type = "Piece"
    /\ get_en_passant(board) = Some(call.move.to)

\* C11: when a pawn moves diagonally onto the en-passant square, the
\* returned board has the pawn on that square, the origin square empty, the
\* enemy pawn directly behind the en-passant square (on the capturer's rank)
\* removed, and every other square as before; a piece that is not a pawn and
\* moves onto the en-passant square only leaves its origin and takes its
\* destination.
C11_EnPassantCapture ==
    OntoEnPassant =>
        LET from == call.move.from
            to == call.move.to
            piece == unwrap(get_piece(board, from))
            r == unwrap(result.board)
            victim == Position(from.row, to.col)
        IN  /\ get_piece(r, to) = Some(Piece(piece.kind, piece.color, to))
            /\ get_piece(r, from) = None
            /\ IF is_pawn(piece) /\ from.col # to.col
               THEN /\ get_piece(board, victim) = Some(Pawn(Not(piece.color), victim))
                    /\ get_piece(r, victim) = None
                    /\ SquaresKeptExcept(board, r, {from, to, victim})
               ELSE SquaresKeptExcept(board, r, {from, to})

\* a pawn has captured en passant
C11_Witness ==
    /\ OntoEnPassant
    /\ is_pawn(unwrap(get_piece(board, call.move.from)))
    /\ get_piece(unwrap(result.board), Position(call.move.from.row, call.move.to.col)) = None

\* the pieces of the side not to move on board b that are no longer on their
\* square on board r
RemovedEnemyPieces(b, r) ==
    {x \in Range(get_player_pieces(b, Not(get_turn(b)))) : get_piece(r, get_pos(x)) # Some(x)}

\* C12: in the board returned by an accepted play_move, get_taken_piece is
\* the enemy piece the move removed from the board, for every kind of
\* capture (an en-passant capture included), and None when the move removed
\* no enemy piece; so a capture is reported for one move only.
C12_TakenPiece ==
    (Played /\ result.kind \in {"Continuing", "Promote"}) =>
        LET r == unwrap(result.board)
            removed == RemovedEnemyPieces(board, r)
        IN  IF removed = {}
            THEN r.taken_piece = None
            ELSE r.taken_piece \in {Some(x) : x \in removed}

\* an en-passant capture that removed a pawn and reports no taken piece
C12_Witness ==
    /\ OntoEnPassant
    /\ is_pawn(unwrap(get_piece(board, call.move.from)))
    /\ RemovedEnemyPieces(board, unwrap(result.board)) # {}
    /\ unwrap(result.board).taken_piece = None

\* the castling rights of a color on board b
RightsOf(b, color) ==
    IF color = WHITE THEN b.white_castling_rights ELSE b.black_castling_rights

\* C13: castling rights are monotone: whenever the caller carries on with a
\* returned board, a right that was false on the board it held is false on
\* the board it now holds, for both colors and both sides.
C13_CastlingRightsMonotone ==
    [][\A color \in {WHITE, BLACK} :
          /\ RightsOf(board', color).kingside => RightsOf(board, color).kingside
          /\ RightsOf(board', color).queenside => RightsOf(board, color).queenside]_vars

\* the white king is back on e1 with the rook on h1 and f1, g1 empty and
\* safe, the kingside right is gone, and the kingside castle is rejected
C13_Witness ==
    /\ Played
    /\ call.move = KingSideCastle
    /\ get_turn(board) = WHITE
    /\ get_piece(board, position.E1) = Some(King(WHITE, position.E1))
    /\ get_piece(board, position.H1) = Some(Rook(WHITE, position.H1))
    /\ has_no_piece(board, position.F1) /\ has_no_piece(board, position.G1)
    /\ ~is_in_check(board, WHITE)
    /\ ~is_threatened(board, position.F1, WHITE) /\ ~is_threatened(board, position.G1, WHITE)
    /\ ~RightsOf(board, WHITE).kingside
    /\ result = IllegalMove(KingSideCastle)

\* C14: an accepted move changes castling rights only for the color that
\* moved: a king move or a castle clears both of its rights, a rook leaving
\* its color's a-file corner clears only the queenside right, a rook leaving
\* its color's h-file corner clears only the kingside right, any other move
\* leaves them as they were; the opponent's rights never change.
C14_CastlingRightsUpdate ==
    (Accepted /\ result.kind \in {"Continuing", "Promote"}) =>
        LET r == unwrap(result.board)
            m == call.move
            c == get_turn(board)
            old == RightsOf(board, c)
            new == RightsOf(r, c)
            corner(col) == Position(IF c = WHITE THEN 0 ELSE 7, col)
            moved == IF m.type = "Piece" /\ is_on_board(m.from) /\ is_on_board(m.to)
                     THEN get_piece(board, m.from) ELSE None
        IN  /\ RightsOf(r, Not(c)) = RightsOf(board, Not(c))
            /\ IF m.type \in {"KingSideCastle", "QueenSideCastle"}
                  \/ (is_some(moved) /\ unwrap(moved).kind = "King")
               THEN new = CastlingRights(FALSE, FALSE)
               ELSE IF moved = Some(Rook(c, corner(0)))
               THEN new = CastlingRights(old.kingside, FALSE)
               ELSE IF moved = Some(Rook(c, corner(7)))
               THEN new = CastlingRights(FALSE, old.queenside)
               ELSE new = old

\* a rook has left its h-file corner: the kingside right is cleared and the
\* queenside right is still set
C14_Witness ==
    /\ Accepted
    /\ result.kind = "Continuing"
    /\ call.move.type = "Piece"
    /\ get_piece(board, call.move.from) = Some(Rook(WHITE, position.H1))
    /\ RightsOf(board, WHITE) = CastlingRights(TRUE, TRUE)
    /\ RightsOf(unwrap(result.board), WHITE) = CastlingRights(FALSE, TRUE)

\* the conditions under which `color` may castle on the kingside
\* (kingside = TRUE) or on the queenside, stated from the rules of the game
CastleConditions(b, color, kingside) ==
    LET row == king_pos(color).row
        between == IF kingside THEN {5, 6} ELSE {1, 2, 3}
        crossed == IF kingside THEN {5, 6} ELSE {3, 2}
        corner == b.squares[square_index(Position(row, IF kingside THEN 7 ELSE 0))]
    IN  /\ \A col \in between : b.squares[square_index(Position(row, col))] = None
        /\ corner # None
        /\ corner[1].kind = "Rook"
        /\ corner[1].color = color
        /\ IF kingside THEN RightsOf(b, color).kingside ELSE RightsOf(b, color).queenside
        /\ ~is_in_check(b, color)
        /\ \A col \in crossed : ~is_threatened(b, Position(row, col), color)

\* C15: on every board a game started from Board::default() reaches,
\* can_kingside_castle(color) and
\* can_queenside_castle(color) are true only if the squares between king and
\* rook are empty, the corner holds a rook of that color, the matching right
\* is set, the king is not in check and no square the king crosses, its
\* destination included (f and g, d and c), is threatened; both castles are
\* unavailable to both colors in the initial position.
C15_CastlingEligibility ==
    /\ (game \in DefaultGames /\ result = NoResult) =>
          \A color \in {WHITE, BLACK} :
              /\ can_kingside_castle(board, color) => CastleConditions(board, color, TRUE)
              /\ can_queenside_castle(board, color) => CastleConditions(board, color, FALSE)
    /\ \A color \in {WHITE, BLACK} :
          /\ ~can_kingside_castle(Board_default, color)
          /\ ~can_queenside_castle(Board_default, color)

\* the queenside castle is available to White while the square its king
\* would land on is threatened
C15_Witness ==
    /\ game \in DefaultGames
    /\ result = NoResult
    /\ get_turn(board) = WHITE
    /\ can_queenside_castle(board, WHITE)
    /\ is_threatened(board, position.C1, WHITE)

\* play_move accepted a castle of the side to move
CastleAccepted ==
    /\ Played
    /\ call.move \in {KingSideCastle, QueenSideCastle}
    /\ result.kind \notin {"IllegalMove", "Panic"}

\* the corner on which the rook of the castle stands
CastleCorner(m, color) ==
    Position(king_pos(color).row, IF m = KingSideCastle THEN 7 ELSE 0)

\* C16: in a game started from Board::default(), a castle is accepted only
\* if no piece has left or reached the mover's king square since the game
\* began (the king has never moved) and none has left or reached the corner
\* of the castle (the rook standing there has never moved).
C16_CastleOnlyUnmoved ==
    (game \in DefaultGames /\ CastleAccepted) =>
        /\ king_pos(get_turn(board)) \notin touched
        /\ CastleCorner(call.move, get_turn(board)) \notin touched

\* a kingside castle is accepted with a rook that came to h1 from a1
C16_Witness ==
    /\ game \in DefaultGames
    /\ CastleAccepted
    /\ call.move = KingSideCastle
    /\ get_turn(board) = WHITE
    /\ {position.A1, position.H1} \subseteq touched
    /\ position.E1 \notin touched

\* play_move accepted a castle and handed a board back
CastleApplied ==
    /\ CastleAccepted
    /\ result.kind \in {"Continuing", "Promote"}

\* C17: after an accepted KingSideCastle the mover's king is on the g-file
\* and the rook on the f-file of the mover's back rank, with the e- and
\* h-file squares empty; after an accepted QueenSideCastle the king is on the
\* c-file and the rook on the d-file, with the e- and a-file squares empty;
\* in both cases no other square changes, both of the mover's castling
\* rights are cleared, and the en-passant square and taken piece are None.
C17_CastleApplication ==
    CastleApplied =>
        LET color == get_turn(board)
            r == unwrap(result.board)
            at(col) == Position(king_pos(color).row, col)
            kingside == call.move = KingSideCastle
            king_to == IF kingside THEN at(6) ELSE at(2)
            rook_to == IF kingside THEN at(5) ELSE at(3)
            corner == IF kingside THEN at(7) ELSE at(0)
        IN  /\ get_piece(r, king_to) = Some(King(color, king_to))
            /\ get_piece(r, rook_to) = Some(Rook(color, rook_to))
            /\ get_piece(r, at(4)) = None
            /\ get_piece(r, corner) = None
            /\ SquaresKeptExcept(board, r, {at(4), king_to, rook_to, corner})
            /\ ~RightsOf(r, color).kingside
            /\ ~RightsOf(r, color).queenside
            /\ r.en_passant = None
            /\ r.taken_piece = None

\* a castle is accepted and applied for a side whose king does not stand
\* on its home square
C17_Witness ==
    /\ CastleApplied
    /\ get_king_pos(board, get_turn(board)) # None
    /\ get_king_pos(board, get_turn(board)) # Some(king_pos(get_turn(board)))

\* every occupied square of b holds a piece whose position is the square's
\* coordinate, and b has 64 squares
PositionsConsistent(b) ==
    /\ Len(b.squares) = 64
    /\ \A i \in 1..64 :
          b.squares[i] # None => b.squares[i][1].pos = index_pos(i - 1)

\* C18: in every board reachable from a board constructor (empty, default,
\* horde, dunsany) through play_move and promote, the piece on each occupied
\* square has that square's coordinate as its position, and the board has
\* exactly 64 squares.
C18_PositionConsistency ==
    game \in ConstructorGames =>
        /\ PositionsConsistent(board)
        /\ result.board # None => PositionsConsistent(unwrap(result.board))

\* a horde game in which a pawn that the constructor cloned along a row has
\* moved and a capture has been made
C18_Witness ==
    /\ game = 13
    /\ ply >= 2
    /\ get_piece(board, position.B6) # None
    /\ get_piece(board, position.B5) = None
    /\ board.taken_piece # None
    /\ PositionsConsistent(board)

\* a query has been answered
Asked(query) == answer # None /\ answer[1].query = query

\* how many pieces of `kind` the color has on board b
CountOf(b, color, kind) ==
    Cardinality({i \in 1..64 : b.squares[i] # None /\ b.squares[i][1].color = color
                                                   /\ b.squares[i][1].kind = kind})

\* the material of `color` on b, as a count of each kind
CompositionOf(b, color) ==
    [kind \in {"King", "Queen", "Rook", "Bishop", "Knight", "Pawn"} |-> CountOf(b, color, kind)]

\* king alone, king+knight, king+bishop, king+two knights, king+two bishops
ListedInsufficient ==
    { [King |-> 1, Queen |-> 0, Rook |-> 0, Bishop |-> bn[1], Knight |-> bn[2], Pawn |-> 0] :
        bn \in {<<0, 0>>, <<0, 1>>, <<1, 0>>, <<0, 2>>, <<2, 0>>} }

NoPieces == [kind \in {"King", "Queen", "Rook", "Bishop", "Knight", "Pawn"} |-> 0]

\* the two material queries contradict each other nowhere
MaterialNegation(b) ==
    \A color \in {WHITE, BLACK} :
        has_insufficient_material(b, color) = ~has_sufficient_material(b, color)

AllSquares == {index_pos(i - 1) : i \in 1..64}

\* by the movement rules, an enemy piece could capture the king of `color`
RuleInCheck(b, color) ==
    \E k \in AllSquares, p \in AllSquares :
        /\ b.squares[square_index(k)] = Some(King(color, k))
        /\ RuleAllows([b EXCEPT !.turn = Not(color)], p, k)

\* board b after the piece on `from` went to `to`
RuleAfter(b, from, to) ==
    LET piece == b.squares[square_index(from)][1]
    IN  [b EXCEPT !.squares[square_index(from)] = None,
                  !.squares[square_index(to)] = Some(Piece(piece.kind, piece.color, to)),
                  !.en_passant = None]

\* by the movement rules, every move of the side to move would leave its
\* own king capturable
RuleNoMove(b) ==
    \A from \in AllSquares, to \in AllSquares :
        RuleAllows(b, from, to) => RuleInCheck(RuleAfter(b, from, to), b.turn)

\* the material of `color` is insufficient
RuleLowMaterial(b, color) == CompositionOf(b, color) \in ListedInsufficient \cup {NoPieces}

OpeningMoves(color) ==
    LET pawns == IF color = WHITE THEN 1 ELSE 6
        back == IF color = WHITE THEN 0 ELSE 7
        dir == IF color = WHITE THEN 1 ELSE -1
    IN  { MovePiece(Position(pawns, col), Position(pawns + n * dir, col)) : col \in 0..7, n \in 1..2 }
        \cup { MovePiece(Position(back, col), Position(back + 2 * dir, col + d)) :
                   col \in {1, 6}, d \in {-1, 1} }

\* C21: on Board::default(), get_legal_moves(WHITE) and
\* get_legal_moves(BLACK) each hold exactly 20 moves: the single and the
\* double push of each of the 8 pawns and the two moves of each knight, and
\* no move of a king, queen, rook or bishop and no castle.
C21_DefaultLegalMoves ==
    (game \in DefaultGames /\ ply = 0) =>
        \A color \in {WHITE, BLACK} :
            /\ Len(get_legal_moves(board, color)) = 20
            /\ Range(get_legal_moves(board, color)) = OpeningMoves(color)

\* the default board, on which a knight move and a double push are listed
\* for White and none of the moves is a castle
C21_Witness ==
    /\ board = Board_default
    /\ result = NoResult
    /\ {MovePiece(position.G1, position.F3), MovePiece(position.E2, position.E4)}
           \subseteq Range(get_legal_moves(board, WHITE))
    /\ KingSideCastle \notin Range(get_legal_moves(board, WHITE))

\* the destinations that the moves `legal` give the piece on pos
ListedFrom(legal, pos) ==
    {m.to : m \in {x \in legal : x.type = "Piece" /\ x.from = pos}}

\* the squares on which a pawn of `color` stands
PawnsOf(b, color) == {p \in AllSquares : b.squares[square_index(p)] = Some(Pawn(color, p))}

\* C22: a pawn on its color's starting rank whose two forward squares are
\* empty has the single and the double push listed, unless the push exposes
\* its king; a pawn elsewhere has no double push listed; no push onto or
\* across an occupied square is listed; a diagonal move is listed only
\* onto an enemy-occupied square or the en-passant square; nothing else is
\* listed for a pawn.
C22_PawnPushes ==
    result = NoResult =>
        \A color \in {WHITE, BLACK} :
          LET legal == Range(get_legal_moves(board, color))
          IN  \A pos \in PawnsOf(board, color) :
            LET dir == IF color = WHITE THEN 1 ELSE -1
                home == IF color = WHITE THEN 1 ELSE 6
                one == Position(pos.row + dir, pos.col)
                two == Position(pos.row + 2 * dir, pos.col)
                empty(p) == board.squares[square_index(p)] = None
                listed == ListedFrom(legal, pos)
            IN  /\ (pos.row = home /\ empty(one) /\ empty(two)) =>
                      \A t \in {one, two} :
                          t \in listed \/ RuleInCheck(RuleAfter(board, pos, t), color)
                /\ pos.row # home => two \notin listed
                /\ \A t \in listed :
                      \/ t = one /\ empty(one)
                      \/ t = two /\ empty(one) /\ empty(two)
                      \/ /\ t.row = pos.row + dir
                         /\ abs(t.col - pos.col) = 1
                         /\ \/ has_enemy_piece(board, t, color)
                            \/ board.en_passant = Some(t)

\* a board on which one pawn of the side to move has both pushes listed,
\* another stands beyond its starting rank before an empty square, and a
\* third has a capture listed next to an en-passant capture
C22_Witness ==
    /\ result = NoResult
    /\ board.en_passant # None
    /\ LET legal == Range(get_legal_moves(board, board.turn))
       IN  /\ \E pos \in PawnsOf(board, board.turn) :
                 Cardinality({t \in ListedFrom(legal, pos) : t.col = pos.col}) = 2
           /\ \E pos \in PawnsOf(board, board.turn) :
                 /\ ~pos_is_starting_pawn(pos, board.turn)
                 /\ Cardinality({t \in ListedFrom(legal, pos) : t.col = pos.col}) = 1
           /\ \E pos \in PawnsOf(board, board.turn) :
                 \E t \in ListedFrom(legal, pos) : board.en_passant = Some(t)

\* ------------------------------------------------------------------------
\* C23: inside minimax the side whose legal moves are enumerated alternates
\* with every ply: a call enumerates the moves of the opponent of the side
\* whose move produced its board, and from a call to the call it makes the
\* enumerated side changes and is_maximizing flips.
\* ------------------------------------------------------------------------
C23_SearchAlternation ==
    [][(answer' # None /\ answer'[1].query = "minimax_call") =>
          /\ answer'[1].color = Not(answer'[1].value.mover)
          /\ Asked("minimax_call") =>
                /\ answer'[1].value.is_maximizing = ~answer[1].value.is_maximizing
                /\ answer'[1].color = Not(answer[1].color)]_vars

\* the flag flips from call to call (the part of C23 the code keeps)
C23_FlagFlips ==
    [][(Asked("minimax_call") /\ answer' # None /\ answer'[1].query = "minimax_call") =>
          answer'[1].value.is_maximizing = ~answer[1].value.is_maximizing]_vars

\* a call one level below the first, maximizing, that enumerates the moves
\* of the very side whose move produced its board
C23_Witness ==
    /\ Asked("minimax_call")
    /\ answer[1].value.is_maximizing
    /\ answer[1].value.depth > 0
    /\ answer[1].color = answer[1].value.mover
    /\ board = Board_default

\* ------------------------------------------------------------------------
\* C24: get_best_next_move(depth) returns a legal move of the side to move
\* whose rating is the greatest of the ratings of all its legal moves, the
\* last such move in the order of get_legal_moves; with no legal move it
\* returns (Move::Resign, -999999.0).
\* ------------------------------------------------------------------------
\* the rating of a move: minimax of the board it gives, full window, not
\* maximizing, from the mover's perspective
RatingOf(b, m, depth) ==
    minimax(apply_move(b, m), depth, -2000000, 2000000, FALSE, get_turn(b))

C24_BestNextMove ==
    Asked("get_best_next_move") =>
        \E legal \in {get_legal_moves(board, get_turn(board))} :
        \E got \in {answer[1].value.rated} :
        \E ratings \in {[k \in 1..Len(legal) |-> RatingOf(board, legal[k], answer[1].value.depth)]} :
            IF legal = <<>>
            THEN got = <<Resign, -1999998>>
            ELSE \E k \in 1..Len(legal) :
                    /\ got = <<legal[k], ratings[k]>>
                    /\ \A j \in 1..Len(legal) : ratings[j] <= ratings[k]
                    /\ \A j \in (k + 1)..Len(legal) : ratings[j] < ratings[k]

\* the best move of the default board one ply ahead is returned, and an
\* earlier legal move has the same rating
C24_Witness ==
    /\ Asked("get_best_next_move")
    /\ board = Board_default
    /\ answer[1].value.rated[1] \in Range(get_legal_moves(board, WHITE))
    /\ \E legal \in {get_legal_moves(board, WHITE)} :
       \E k, j \in 1..Len(legal) :
          /\ j < k
          /\ legal[k] = answer[1].value.rated[1]
          /\ RatingOf(board, legal[j], answer[1].value.depth) = answer[1].value.rated[2]

\* the side to move has no legal move and the answer is the resignation
C24_WitnessResign ==
    /\ Asked("get_best_next_move")
    /\ get_legal_moves(board, get_turn(board)) = <<>>
    /\ answer[1].value.rated = <<Resign, -1999998>>

\* ------------------------------------------------------------------------
\* C28: minimax called with the full window (alpha = -1000000, beta =
\* 1000000) returns, for every board, depth, maximizing flag and perspective
\* colour, the value of the same search without any cutoff.
\* ------------------------------------------------------------------------
Greatest(S) == CHOOSE x \in S : \A y \in S : y <= x
Least(S) == CHOOSE x \in S : \A y \in S : x <= y

\* the search of minimax with every move of every level visited: the best
\* value starts at -999999 (maximizing) or 999999 (minimizing) as in the code
RECURSIVE ExhaustiveMinimax(_, _, _, _)
ExhaustiveMinimax(b, depth, is_maximizing, color) ==
    IF depth = 0 THEN get_player_value(b, color)
    ELSE \* the binding by CHOOSE computes the list of moves once
         LET legal == CHOOSE l \in {get_legal_moves(b, get_turn(b))} : TRUE
             children == {ExhaustiveMinimax(apply_move(b, legal[k]), depth - 1,
                                            ~is_maximizing, color) : k \in 1..Len(legal)}
         IN  IF is_maximizing THEN Greatest(children \cup {-1999998})
             ELSE Least(children \cup {1999998})

\* the answer of minimax, and every rating of rate_legal_moves, are the
\* values of the search without cutoff
PruningKeepsValue ==
    /\ Asked("minimax") =>
          answer[1].value.rating =
              ExhaustiveMinimax(board, answer[1].value.depth,
                                answer[1].value.is_maximizing, answer[1].color)
    /\ Asked("rate_legal_moves") =>
          \A k \in 1..Len(answer[1].value.rated) :
              answer[1].value.rated[k][2] =
                  ExhaustiveMinimax(apply_move(board, answer[1].value.rated[k][1]),
                                    answer[1].value.depth, FALSE, get_turn(board))

C28_PruningKeepsValue == PruningKeepsValue

\* the same on the boards where both sides have a king
C28_PruningKeepsValueWithKings ==
    (\A color \in {WHITE, BLACK} : get_king_pos(board, color) # None) => PruningKeepsValue

\* a search of two plies on the default board, maximizing, was answered with
\* the value of the search without cutoff
C28_Witness ==
    /\ Asked("minimax")
    /\ board = Board_default
    /\ answer[1].value.depth = MaxDepth
    /\ answer[1].value.is_maximizing
    /\ answer[1].value.rating = ExhaustiveMinimax(board, MaxDepth, TRUE, answer[1].color)

\* ------------------------------------------------------------------------
\* C27: BoardBuilder::default().player_moving(color).build().get_turn() is
\* color; a board built with player_moving(BLACK) starts with Black to move.
\* ------------------------------------------------------------------------
C27_PlayerMoving ==
    /\ \A color \in {WHITE, BLACK} :
          get_turn(player_moving(BoardBuilder_default, color)) = color
    /\ (game \in BlackFirstGames /\ ply = 0) => get_turn(board) = BLACK

\* on the board built with player_moving(BLACK) the first move of Black is
\* turned down and White's is played
C27_Witness ==
    /\ game \in BlackFirstGames
    /\ ply = 1
    /\ result.kind = "Continuing"
    /\ call.move = MovePiece(position.E8, position.E7)
    /\ LET first == Games[game].board
       IN  /\ play_move(first, MovePiece(position.E8, position.E7)).kind = "IllegalMove"
           /\ play_move(first, MovePiece(position.E1, position.E2)).kind = "Continuing"

\* ------------------------------------------------------------------------
\* C25: for every position p on the board, the text printed for p is its
\* column letter a-h followed by row + 1, and from_str of that text is p;
\* from_str returns an error for a text whose length is not 2, whose letter
\* is outside A-H (either case) or whose digit is outside 1-8.
\* ------------------------------------------------------------------------
Letters == <<"a", "b", "c", "d", "e", "f", "g", "h">>

CapitalLetters == <<"A", "B", "C", "D", "E", "F", "G", "H">>

\* the text is not a letter of a column followed by the digit of a row
BadText(text) ==
    \/ Len(text) # 2
    \/ text[1] \notin Range(Letters) \cup Range(CapitalLetters)
    \/ text[2] \notin {Digits[d + 1] : d \in 1..8}

\* the position a well-formed text names
Named(text) ==
    Position((CHOOSE d \in 1..8 : Digits[d + 1] = text[2]) - 1,
             (CHOOSE c \in 1..8 : text[1] \in {Letters[c], CapitalLetters[c]}) - 1)

RoundTrip ==
    (Asked("to_string") /\ answer[1].value.pos \in AllSquares) =>
        /\ answer[1].value.text =
               <<Letters[answer[1].value.pos.col + 1], Digits[answer[1].value.pos.row + 2]>>
        /\ from_str(answer[1].value.text) = [kind |-> "Ok", value |-> answer[1].value.pos]

C25_PositionText ==
    /\ RoundTrip
    /\ (Asked("from_str") /\ BadText(answer[1].value.text)) => answer[1].value.parsed.kind = "Err"

\* the round trip alone, and the parsing of the texts made of one-byte chars
C25_RoundTripAndAscii ==
    /\ RoundTrip
    /\ (Asked("from_str") /\ "U+00E9" \notin Range(answer[1].value.text)) =>
          IF BadText(answer[1].value.text)
          THEN answer[1].value.parsed.kind = "Err"
          ELSE answer[1].value.parsed = [kind |-> "Ok", value |-> Named(answer[1].value.text)]

\* the text that is printed for h8 was parsed to h8
C25_Witness ==
    /\ Asked("from_str")
    /\ answer[1].value.text = <<"h", "8">>
    /\ answer[1].value.parsed = [kind |-> "Ok", value |-> position.H8]

\* ------------------------------------------------------------------------
\* C26: a.diagonals_to(b) (a.orthogonals_to(b)) is empty when b is not on a
\* diagonal (a rank or file) of a or b = a; otherwise it is the squares from
\* a to b in travel order, without a, ending with b, each one step from the
\* one before, as many as the distance between a and b.
\* ------------------------------------------------------------------------
Sign(x) == IF x > 0 THEN 1 ELSE IF x < 0 THEN -1 ELSE 0

C26_PathEnumeration ==
    (Asked("diagonals_to") \/ Asked("orthogonals_to")) =>
        LET a == answer[1].value.from
            b == answer[1].value.to
            path == answer[1].value.path
            drow == b.row - a.row
            dcol == b.col - a.col
            aligned == IF Asked("diagonals_to") THEN abs(drow) = abs(dcol)
                       ELSE drow = 0 \/ dcol = 0
            distance == IF abs(drow) > abs(dcol) THEN abs(drow) ELSE abs(dcol)
            before(k) == IF k = 1 THEN a ELSE path[k - 1]
        IN  IF ~aligned \/ a = b THEN path = <<>>
            ELSE /\ Len(path) = distance
                 /\ path[Len(path)] = b
                 /\ a \notin Range(path)
                 /\ \A k \in 1..Len(path) :
                       /\ path[k].row - before(k).row = Sign(drow)
                       /\ path[k].col - before(k).col = Sign(dcol)

\* the long diagonal from a1 to h8 was enumerated: seven squares, h8 last
C26_Witness ==
    /\ Asked("diagonals_to")
    /\ answer[1].value.from = position.A1
    /\ answer[1].value.to = position.H8
    /\ Len(answer[1].value.path) = 7
    /\ answer[1].value.path[1] = position.B2
    /\ answer[1].value.path[7] = position.H8

\* a file was travelled downwards: a8 to a5 is a7, a6, a5
C26_WitnessOrthogonal ==
    /\ Asked("orthogonals_to")
    /\ answer[1].value.from = position.A8
    /\ answer[1].value.path = <<position.A7, position.A6, position.A5>>

\* ------------------------------------------------------------------------
\* C29: a move of a rook, bishop or queen from a to b is legal, before the
\* moves that leave the own king attacked are taken out, exactly when b is on
\* the same rank or file (rook), the same diagonal (bishop) or either
\* (queen), b is not a, b holds no piece of the same colour and every square
\* strictly between a and b is empty; so the first square of a line that
\* holds an enemy piece is a destination and no square beyond it is.
\* ------------------------------------------------------------------------
Sliders == {"Rook", "Bishop", "Queen"}

SlidersOf(b, color) ==
    {Piece(kind, color, pos) : kind \in Sliders, pos \in AllSquares}
        \cap {b.squares[i][1] : i \in {j \in 1..64 : b.squares[j] # None}}

RuleSlide(b, piece, to) ==
    /\ to # piece.pos
    /\ \/ piece.kind \in {"Rook", "Queen"} /\ RuleSameLine(piece.pos, to)
       \/ piece.kind \in {"Bishop", "Queen"} /\ RuleSameDiagonal(piece.pos, to)
    /\ \/ b.squares[square_index(to)] = None
       \/ b.squares[square_index(to)][1].color # piece.color
    /\ RuleClear(b, piece.pos, to)

C29_SlidingPieces ==
    result = NoResult =>
        \A color \in {WHITE, BLACK} :
            LET legal == Range(get_legal_moves(board, color))
            IN  \A piece \in SlidersOf(board, color) : \A to \in AllSquares :
                    /\ piece_is_legal_move(piece, to, board) <=> RuleSlide(board, piece, to)
                    /\ MovePiece(piece.pos, to) \in legal => RuleSlide(board, piece, to)
                    /\ (RuleSlide(board, piece, to) /\ MovePiece(piece.pos, to) \notin legal)
                           => RuleInCheck(RuleAfter(board, piece.pos, to), color)

\* a slider faces an enemy piece on one of its lines with a square behind
\* it: taking the piece is listed, the square behind is not a destination
C29_Witness ==
    /\ result = NoResult
    /\ \E piece \in SlidersOf(board, get_turn(board)) : \E hit, beyond \in AllSquares :
          /\ has_enemy_piece(board, hit, piece.color)
          /\ hit \in RuleBetween(piece.pos, beyond)
          /\ RuleSlide(board, piece, hit)
          /\ MovePiece(piece.pos, hit) \in Range(get_legal_moves(board, piece.color))
          /\ ~piece_is_legal_move(piece, beyond, board)
          /\ has_no_piece(board, beyond)

\* ------------------------------------------------------------------------
\* C30: is_threatened(pos, ally_color) is true exactly when a piece of the
\* other colour attacks pos: a king next to it, a knight a knight move away,
\* a rook, bishop or queen with a clear line to it, or a pawn that has pos as
\* one of its two forward diagonal squares, occupied or not; a pawn never
\* threatens the square straight ahead; is_in_check(color) is is_threatened
\* at the square of that colour's king, and false without a king.
\* ------------------------------------------------------------------------
PiecesOf(b, color) ==
    {b.squares[i][1] : i \in {j \in 1..64 : b.squares[j] # None /\ b.squares[j][1].color = color}}

RuleAttacks(b, piece, pos) ==
    LET drow == pos.row - piece.pos.row
        dcol == pos.col - piece.pos.col
    IN  CASE piece.kind = "King"   -> pos # piece.pos /\ abs(drow) <= 1 /\ abs(dcol) <= 1
          [] piece.kind = "Knight" -> {abs(drow), abs(dcol)} = {1, 2}
          [] piece.kind = "Pawn"   -> drow = (IF piece.color = WHITE THEN 1 ELSE -1) /\ abs(dcol) = 1
          [] OTHER ->
               /\ pos # piece.pos
               /\ \/ piece.kind \in {"Rook", "Queen"} /\ RuleSameLine(piece.pos, pos)
                  \/ piece.kind \in {"Bishop", "Queen"} /\ RuleSameDiagonal(piece.pos, pos)
               /\ RuleClear(b, piece.pos, pos)

RuleThreatened(b, pos, ally_color) ==
    \E piece \in PiecesOf(b, Not(ally_color)) : RuleAttacks(b, piece, pos)

\* is_in_check is is_threatened at the king's square, false without a king
InCheckIsKingThreatened(b) ==
    \A color \in {WHITE, BLACK} :
        is_in_check(b, color) =
            (\E king \in PiecesOf(b, color) :
                king.kind = "King" /\ is_threatened(b, king.pos, color))

\* the claim as stated, for every square
C30_ThreatDetection ==
    result = NoResult =>
        /\ \A color \in {WHITE, BLACK} : \A pos \in AllSquares :
              is_threatened(board, pos, color) = RuleThreatened(board, pos, color)
        /\ InCheckIsKingThreatened(board)

\* C30, amended: the same for every square that does not hold a piece of the
\* other colour; on a square that holds one is_threatened is false
C30_ThreatDetectionOffEnemy ==
    result = NoResult =>
        /\ \A color \in {WHITE, BLACK} : \A pos \in AllSquares :
              is_threatened(board, pos, color) =
                  (/\ ~has_enemy_piece(board, pos, color)
                   /\ RuleThreatened(board, pos, color))
        /\ InCheckIsKingThreatened(board)

\* an empty square is threatened by a pawn alone, the empty square straight
\* ahead of that pawn is not threatened, and a king is in check
C30_Witness ==
    /\ result = NoResult
    /\ \E color \in {WHITE, BLACK} :
          /\ is_in_check(board, color)
          /\ \E pawn \in PiecesOf(board, Not(color)) : \E pos, ahead \in AllSquares :
                /\ pawn.kind = "Pawn"
                /\ has_no_piece(board, pos)
                /\ is_threatened(board, pos, color)
                /\ \A piece \in PiecesOf(board, Not(color)) :
                      RuleAttacks(board, piece, pos) => piece = pawn
                /\ ahead = pawn_up(pawn.pos, pawn.color)
                /\ has_no_piece(board, ahead)
                /\ ~is_threatened(board, ahead, color)

\* ------------------------------------------------------------------------
\* C34: king preservation. In every board reached from Board::default() by
\* play_move and promote each color has exactly one king: no accepted move
\* captures or overwrites a king.
\* ------------------------------------------------------------------------
C34_KingPreservation ==
    game \in DefaultGames =>
        \A color \in {WHITE, BLACK} : CountOf(board, color, "King") = 1

\* the caller holds a board, reached from Board::default(), without a black
\* king: a white pawn beside the en-passant square was moved onto e8
C34_Witness ==
    /\ game \in DefaultGames
    /\ ply > 0
    /\ CountOf(board, BLACK, "King") = 0
    /\ board.squares[square_index(position.E8)] = Some(Pawn(WHITE, position.E8))

\* ------------------------------------------------------------------------
\* C35: material is only removed by capture. For every accepted play_move
\* the number of pieces of the mover is unchanged and the number of pieces
\* of the opponent decreases by at most one; promote() changes neither
\* number.
\* ------------------------------------------------------------------------
PieceCount(b, color) == Cardinality(PiecesOf(b, color))

C35_MaterialOnlyCaptured ==
    /\ (Played /\ result.kind \in {"Continuing", "Promote"}) =>
          LET mover == get_turn(board)
              after == unwrap(result.board)
          IN  /\ PieceCount(after, mover) = PieceCount(board, mover)
              /\ PieceCount(after, Not(mover)) \in
                    {PieceCount(board, Not(mover)), PieceCount(board, Not(mover)) - 1}
    /\ (Promoted /\ result.kind = "Board") =>
          \A color \in {WHITE, BLACK} :
              PieceCount(unwrap(result.board), color) = PieceCount(board, color)

\* an accepted pawn move from Board::default() that lands on a piece of the
\* mover's own color, which is lost
C35_Witness ==
    /\ game \in DefaultGames
    /\ Played
    /\ result.kind = "Continuing"
    /\ has_ally_piece(board, call.move.to, get_turn(board))
    /\ PieceCount(unwrap(result.board), get_turn(board)) = PieceCount(board, get_turn(board)) - 1

\* ------------------------------------------------------------------------
\* C36: no board handed back for further play is already finished. The
\* board inside every Continuing result and the board returned by every
\* promote call is neither checkmate nor stalemate for its side to move.
\* ------------------------------------------------------------------------
C36_HandedBackUnfinished ==
    ((Played /\ result.kind = "Continuing") \/ (Promoted /\ result.kind = "Board")) =>
        /\ ~is_checkmate(unwrap(result.board))
        /\ ~is_stalemate(unwrap(result.board))

\* the Continuing half of the statement, which play_move tests before it
\* returns
C36_ContinuingUnfinished ==
    (Played /\ result.kind = "Continuing") =>
        /\ ~is_checkmate(unwrap(result.board))
        /\ ~is_stalemate(unwrap(result.board))

\* promote returns a board on which the game is drawn: the pawn that took
\* the last enemy piece becomes a bishop and bare kings and a bishop remain
C36_Witness ==
    /\ Promoted
    /\ call.promotion = "Bishop"
    /\ result.kind = "Board"
    /\ is_stalemate(unwrap(result.board))

\* ------------------------------------------------------------------------
\* C37: pending promotion. A board has promotion = Some(p) only when it is
\* the board carried by a Promote(board, p) result, and then p is on the
\* last rank of the side to move and holds a pawn of the side to move; the
\* boards in Continuing results and the boards returned by promote() have
\* no pending promotion.
\* ------------------------------------------------------------------------
PendingIsPromotingPawn(b, p) ==
    /\ b.promotion = Some(p)
    /\ p.row = (IF get_turn(b) = WHITE THEN 7 ELSE 0)
    /\ b.squares[square_index(p)] = Some(Pawn(get_turn(b), p))

C37_PendingPromotion ==
    /\ result.kind = "Promote" =>
          PendingIsPromotingPawn(unwrap(result.board), unwrap(result.pos))
    /\ result.kind \in {"Continuing", "Board"} => unwrap(result.board).promotion = None
    \* the board the caller holds: built without a pending square, and with
    \* one only when it was taken out of a Promote result
    /\ ply = 0 => board.promotion = None
    /\ board.promotion # None => PendingIsPromotingPawn(board, unwrap(board.promotion))

\* the step that hands a board over: a pending square arrives only with a
\* Promote result
C37_PendingOnlyFromPromote ==
    [][(board' # board /\ board'.promotion # None) => result.kind = "Promote"]_vars

\* each case has happened: a Promote result by capture on the last rank, the
\* caller holding that board, and promote() returning it without the square
C37_Witness ==
    /\ Promoted
    /\ result.kind = "Board"
    /\ board.promotion # None
    /\ board.taken_piece # None
    /\ unwrap(result.board).promotion = None

\* ------------------------------------------------------------------------
\* C38: castling rights imply the king at home. In every board reached from
\* Board::default() by play_move and promote, a color that still has its
\* kingside or queenside castling right has its king on its starting square
\* (e1 for White, e8 for Black), so an accepted castle always moves the king
\* from its starting square.
\* ------------------------------------------------------------------------
KingAtHome(b, color) ==
    b.squares[square_index(king_pos(color))] = Some(King(color, king_pos(color)))

C38_RightsImplyKingHome ==
    game \in DefaultGames =>
        /\ \A color \in {WHITE, BLACK} :
              (RightsOf(board, color).kingside \/ RightsOf(board, color).queenside)
                  => KingAtHome(board, color)
        /\ CastleAccepted => KingAtHome(board, get_turn(board))

\* a board reached from Board::default() on which Black has both castling
\* rights and no king on e8
C38_Witness ==
    /\ game \in DefaultGames
    /\ ply > 0
    /\ RightsOf(board, BLACK).kingside
    /\ RightsOf(board, BLACK).queenside
    /\ ~KingAtHome(board, BLACK)

\* ------------------------------------------------------------------------
\* C39: a Game created with Game::default() or GameBuilder::default().build()
\* reports in_progress() = true and has_terminated() = false until a win, a
\* draw or a timeout sets the metadata result; after that in_progress() is
\* false.
\* ------------------------------------------------------------------------
\* the sessions that start from Game::default() as it is
DefaultSessions == { i \in 1..Len(Sessions) : Sessions[i].start = Game_default }

\* a win (also by timeout) or a draw has been written to the metadata
ResultSet(g) == g.metadata.result \in {"WhiteWins", "BlackWins", "DrawnGame"}

C39_Lifecycle ==
    game \in DefaultSessions =>
        /\ in_progress(session) = ~ResultSet(session)
        /\ has_terminated(session) = ResultSet(session)

\* the part of the lifecycle that holds: no game is in progress after its end
C39_EndedNotInProgress ==
    ResultSet(session) => ~in_progress(session) /\ has_terminated(session)

\* Game::default() before any call: no result is set and it has terminated
C39_Witness ==
    /\ game \in DefaultSessions
    /\ session = Game_default
    /\ answer = None
    /\ ~ResultSet(session)
    /\ has_terminated(session)

\* ------------------------------------------------------------------------
\* C31: Game.play_move subtracts the thinking time from the mover's clock
\* before the move is tried, saturating at zero; if the mover's remaining
\* time is then zero the call returns Ok((Ended(Victory(opponent, Timeout)),
\* NONE)), sets the metadata result to the opponent's win, and neither
\* changes the board nor records the move in the history.
\* ------------------------------------------------------------------------
\* the step is a return of the call `query`
Returns(query) == answer' # None /\ answer'[1].query = query

WinOf(color) == IF color = BLACK THEN "BlackWins" ELSE "WhiteWins"

C31_Timeout ==
    [][ Returns("Game.play_move") =>
          LET player == get_turn(session.board)
              time == answer'[1].value.time
              before == player_remaining_time(session.clock, player)
              after == player_remaining_time(session'.clock, player)
          IN  /\ after = IF time >= before THEN 0 ELSE before - time
              /\ player_remaining_time(session'.clock, Not(player))
                   = player_remaining_time(session.clock, Not(player))
              /\ after = 0 =>
                   /\ answer'[1].value.result
                        = Ok(GameState("Victory", Some(Not(player)), Some("Timeout")), {})
                   /\ session'.metadata.result = WinOf(Not(player))
                   /\ session'.board = session.board
                   /\ session'.moves = session.moves
      ]_vars

\* White, with 2 left, took 3 over a legal first move: the clock stands at
\* zero, Black has won on time, nothing is recorded
C31_Witness ==
    /\ game = 2
    /\ answer # None
    /\ answer[1].query = "Game.play_move"
    /\ answer[1].value.time = MaxTime
    /\ answer[1].value.move = MovePiece(position.E2, position.E4)
    /\ answer[1].value.result.state[1].reason = Some("Timeout")
    /\ session.clock = Clock(0, 1)
    /\ session.metadata.result = "BlackWins"
    /\ session.moves = <<>>
    /\ session.board = Board_default

\* ------------------------------------------------------------------------
\* C33: Game.play_move with a move that checkmates the opponent returns
\* Ok((Ended(Victory(mover, Checkmate)), events)) where events contains the
\* CHECKMATE flag, sets the metadata result to the mover's win, and records
\* the move in the history.
\* ------------------------------------------------------------------------
\* move m, played by the side to move on b, is legal and mates the other side
Mates(b, m) ==
    /\ m # Resign
    /\ is_legal_move(b, m, get_turn(b))
    /\ is_checkmate(change_turn(apply_move(b, m)))

\* the step is a play_move of a mating move by a player with time left
MatingCall ==
    /\ Returns("Game.play_move")
    /\ answer'[1].value.time < player_remaining_time(session.clock, get_turn(session.board))
    /\ Mates(session.board, answer'[1].value.move)

\* the victory of the mover is returned, written to the metadata and recorded
VictoryRecorded ==
    LET player == get_turn(session.board)
        returned == answer'[1].value.result
    IN  /\ returned.kind = "Ok"
        /\ returned.state = Some(GameState("Victory", Some(player), Some("Checkmate")))
        /\ session'.metadata.result = WinOf(player)
        /\ Len(session'.moves) = Len(session.moves) + 1
        /\ SubSeq(session'.moves, 1, Len(session.moves)) = session.moves
        /\ session'.moves[Len(session'.moves)].itself = answer'[1].value.move
        /\ session'.moves[Len(session'.moves)].player = player

C33_Checkmate ==
    [][ MatingCall =>
          /\ VictoryRecorded
          /\ "CHECKMATE" \in answer'[1].value.result.event ]_vars

\* the part that holds: the mover's win is returned, stored and recorded
C33_VictoryRecorded == [][ MatingCall => VictoryRecorded ]_vars

\* the fool's mate: d8h4 has been played on the board after f2f3, e7e5, g2g4,
\* Black's win is returned and recorded, and no flag is set
C33_Witness ==
    /\ game = 1
    /\ answer # None
    /\ answer[1].query = "Game.play_move"
    /\ answer[1].value.move = MovePiece(position.D8, position.H4)
    /\ Mates(session.board, answer[1].value.move)
    /\ answer[1].value.result = Ok(GameState("Victory", Some(BLACK), Some("Checkmate")), {})
    /\ session.metadata.result = "BlackWins"
    /\ Len(session.moves) = 4
    /\ session.moves[4].itself = MovePiece(position.D8, position.H4)

\* ------------------------------------------------------------------------
\* C32: is_n_repetition(n) (n = 3 for is_threefold_repetition, n = 5 for
\* fivefold) is true exactly when at least n full turns have been recorded
\* and the last n turns are equal to each other, a turn being the pair
\* (White's move, Black's move); with fewer than 2n recorded moves it is
\* false.
\* ------------------------------------------------------------------------
\* the history consists of full turns: White's move, then Black's, throughout
FullTurns(g) ==
    /\ Len(g.moves) % 2 = 0
    /\ \A i \in 1..Len(g.moves) : g.moves[i].player = IF i % 2 = 1 THEN WHITE ELSE BLACK

\* turn t of the history: the pair (White's move, Black's move)
TurnOf(g, t) == <<g.moves[2 * t - 1].itself, g.moves[2 * t].itself>>

\* at least n turns are recorded and the last n are equal to each other
TurnsRepeat(g, n) ==
    LET turns == Len(g.moves) \div 2
    IN  /\ turns >= n
        /\ \A t \in (turns - n + 1)..turns : TurnOf(g, t) = TurnOf(g, turns)

C32_Repetition ==
    FullTurns(session) =>
        /\ is_threefold_repetition(session) = TurnsRepeat(session, 3)
        /\ is_fivefold_repetition(session) = TurnsRepeat(session, 5)

\* the part that holds: fewer than 2n recorded moves, no repetition
C32_ShortHistory ==
    \A n \in {3, 5} : Len(session.moves) < 2 * n => ~is_n_repetition(session, n)

\* what the code answers: the last 2n recorded moves are one and the same move
C32_SameMove ==
    \A n \in {3, 5} :
        is_n_repetition(session, n)
          = /\ Len(session.moves) >= 2 * n
            /\ \A i \in (Len(session.moves) - 2 * n + 1)..Len(session.moves) :
                  session.moves[i].itself = session.moves[Len(session.moves)].itself

\* the turn (g1f3, g8f6) stands three times at the end of the history, the
\* last of them played, and no repetition is seen or flagged
C32_Witness ==
    /\ game = 5
    /\ Len(session.moves) = 6
    /\ FullTurns(session)
    /\ TurnsRepeat(session, 3)
    /\ TurnOf(session, 3) = <<knight_out, knight_reply>>
    /\ ~is_threefold_repetition(session)
    /\ answer # None
    /\ answer[1].query = "Game.play_move"
    /\ answer[1].value.move = knight_reply
    /\ "THREEFOLD_REPETITION" \notin answer[1].value.result.event
    /\ session.metadata.result # "DrawnGame"

\* the same move recorded six times over is taken for a threefold repetition
C32_SameMoveWitness ==
    /\ game = 7
    /\ is_threefold_repetition(session)
    /\ answer # None
    /\ answer[1].query = "Game.play_move"
    /\ answer[1].value.move = Resign
    /\ "THREEFOLD_REPETITION" \in answer[1].value.result.event
    /\ Len(session.moves) = 6
    /\ ~FullTurns(session)

====
